---- MODULE Spec2Model ----
(***************************************************************************)
(* Product CRUD page backed by a real-time document collection.            *)
(*   js/app.js              the UI controller                              *)
(*   unnamed/part_000       the store adapter and the helpers              *)
(*                          (crud-operations.js)                           *)
(* Text is modelled as a sequence of one-character strings, a price as an  *)
(* integer number of cents, the floating-point NaN as the value NaN.       *)
(***************************************************************************)
EXTENDS Integers, Sequences, FiniteSets, TLC

(***************************************************************************)
(* Bounds of the model.                                                    *)
(***************************************************************************)
\* remote writes awaiting their answer at the same time
MaxInFlight == 1
\* click listeners accumulated on the table body: the non-empty renders
MaxListeners == 2
\* events from outside in one run: the gestures of the user (fills, submits,
\* cancels, clicks on a row) and the errors of the subscription
MaxEvents == 4

\* the longest list the utility functions are applied to
MaxProducts == 3

\* formatPrice is applied to every amount from 0 to MaxCents cents, and to
\* some larger and negative amounts
MaxCents == 200

(***************************************************************************)
(* Program constants.                                                      *)
(***************************************************************************)
MAX_RECONNECT_ATTEMPTS == 3
RECONNECT_DELAY_MS == 2000
NAME_MIN == 2
NAME_MAX == 100
DESCRIPTION_MIN == 10
DESCRIPTION_MAX == 500
PRICE_MAX_CENTS == 99999999
\* the JavaScript null of currentEditId and unsubscribeProducts
NULL == 0
\* the floating-point NaN, outside the range of the modelled prices
NaN == -2000000000

(***************************************************************************)
(* Text helpers.                                                           *)
(***************************************************************************)
\* the sequence made of n copies of c
Rep(c, n) ==
    [i \in 1..n |-> c]

IsSpace(c) ==
    c = " "

RECURSIVE TrimStart(_)
TrimStart(s) ==
    IF s # << >> /\ IsSpace(Head(s)) THEN TrimStart(Tail(s)) ELSE s

RECURSIVE TrimEnd(_)
TrimEnd(s) ==
    IF s # << >> /\ IsSpace(s[Len(s)]) THEN TrimEnd(SubSeq(s, 1, Len(s) - 1)) ELSE s

\* String.prototype.trim
Trim(s) ==
    TrimEnd(TrimStart(s))

UpperChars ==
    <<"A", "B", "C", "D", "E", "L", "X", "Y">>

LowerChars ==
    <<"a", "b", "c", "d", "e", "l", "x", "y">>

\* the lower-case letter of each upper-case letter
LowerOf ==
    [c \in {UpperChars[i] : i \in 1..Len(UpperChars)} |->
        LowerChars[CHOOSE i \in 1..Len(UpperChars) : UpperChars[i] = c]]

LowerChar(c) ==
    IF c \in DOMAIN LowerOf THEN LowerOf[c] ELSE c

\* String.prototype.toLowerCase
ToLowerCase(s) ==
    [i \in 1..Len(s) |-> LowerChar(s[i])]

\* String.prototype.includes
Includes(s, part) ==
    \/ part = << >>
    \/ \E i \in 0..(Len(s) - Len(part)) :
            s[i + 1] = part[1] /\ SubSeq(s, i + 1, i + Len(part)) = part

DigitChars ==
    <<"0", "1", "2", "3", "4", "5", "6", "7", "8", "9">>

\* the value of each digit
DigitValueOf ==
    [c \in {DigitChars[i] : i \in 1..10} |-> (CHOOSE i \in 1..10 : DigitChars[i] = c) - 1]

IsDigit(c) ==
    c \in DOMAIN DigitValueOf

DigitValue(c) ==
    DigitValueOf[c]

RECURSIVE NatToString(_)
NatToString(n) ==
    IF n < 10 THEN <<DigitChars[n + 1]>>
    ELSE NatToString(n \div 10) \o <<DigitChars[(n % 10) + 1]>>

RECURSIVE DigitsValue(_)
\* the number a string of digits denotes ("" denotes 0)
DigitsValue(s) ==
    IF s = << >> THEN 0
    ELSE 10 * DigitsValue(SubSeq(s, 1, Len(s) - 1)) + DigitValue(s[Len(s)])

RECURSIVE LeadingDigits(_)
\* the longest prefix of s made of digits
LeadingDigits(s) ==
    IF s # << >> /\ IsDigit(Head(s)) THEN <<Head(s)>> \o LeadingDigits(Tail(s)) ELSE << >>

IsNaN(p) ==
    p = NaN

\* parseFloat, to the cent: optional blanks, an optional sign, digits, an
\* optional fraction; what follows the number is ignored; no number gives NaN
ParseFloat(text) ==
    LET s == TrimStart(text)
        neg == s # << >> /\ Head(s) = "-"
        body == IF s # << >> /\ Head(s) \in {"-", "+"} THEN Tail(s) ELSE s
        whole == LeadingDigits(body)
        rest == SubSeq(body, Len(whole) + 1, Len(body))
        frac == IF rest # << >> /\ Head(rest) = "." THEN LeadingDigits(Tail(rest)) ELSE << >>
        frac2 == SubSeq(frac \o <<"0", "0">>, 1, 2)
        cents == 100 * DigitsValue(whole) + DigitsValue(frac2)
    IN  IF whole = << >> /\ frac = << >> THEN NaN
        ELSE IF neg THEN 0 - cents ELSE cents

\* String(number) of a price held in cents, as loadForm writes it in the input
NumberToString(p) ==
    IF IsNaN(p) THEN <<"N", "a", "N">>
    ELSE LET a == IF p < 0 THEN 0 - p ELSE p
             c == a % 100
             fraction == IF c = 0 THEN << >>
                         ELSE IF c % 10 = 0 THEN <<".", DigitChars[(c \div 10) + 1]>>
                         ELSE <<".", DigitChars[(c \div 10) + 1], DigitChars[(c % 10) + 1]>>
         IN  (IF p < 0 THEN <<"-">> ELSE << >>) \o NatToString(a \div 100) \o fraction

(***************************************************************************)
(* Messages of validateProductData and the markers showValidationErrors    *)
(* looks for.                                                              *)
(***************************************************************************)
\* "Los datos del producto son requeridos"
ErrDataRequired ==
    <<"L", "o", "s", " ", "d", "a", "t", "o", "s", " ", "d", "e", "l", " ",
      "p", "r", "o", "d", "u", "c", "t", "o", " ", "s", "o", "n", " ", "r",
      "e", "q", "u", "e", "r", "i", "d", "o", "s" >>

\* "El nombre del producto es requerido"
ErrNameRequired ==
    <<"E", "l", " ", "n", "o", "m", "b", "r", "e", " ", "d", "e", "l", " ",
      "p", "r", "o", "d", "u", "c", "t", "o", " ", "e", "s", " ", "r", "e",
      "q", "u", "e", "r", "i", "d", "o" >>

\* "El nombre debe tener al menos 2 caracteres"
ErrNameTooShort ==
    <<"E", "l", " ", "n", "o", "m", "b", "r", "e", " ", "d", "e", "b", "e",
      " ", "t", "e", "n", "e", "r", " ", "a", "l", " ", "m", "e", "n", "o",
      "s", " ", "2", " ", "c", "a", "r", "a", "c", "t", "e", "r", "e", "s" >>

\* "El nombre no puede exceder 100 caracteres"
ErrNameTooLong ==
    <<"E", "l", " ", "n", "o", "m", "b", "r", "e", " ", "n", "o", " ", "p",
      "u", "e", "d", "e", " ", "e", "x", "c", "e", "d", "e", "r", " ", "1",
      "0", "0", " ", "c", "a", "r", "a", "c", "t", "e", "r", "e", "s" >>

\* "La descripción del producto es requerida"
ErrDescriptionRequired ==
    <<"L", "a", " ", "d", "e", "s", "c", "r", "i", "p", "c", "i", "ó", "n",
      " ", "d", "e", "l", " ", "p", "r", "o", "d", "u", "c", "t", "o", " ",
      "e", "s", " ", "r", "e", "q", "u", "e", "r", "i", "d", "a" >>

\* "La descripción debe tener al menos 10 caracteres"
ErrDescriptionTooShort ==
    <<"L", "a", " ", "d", "e", "s", "c", "r", "i", "p", "c", "i", "ó", "n",
      " ", "d", "e", "b", "e", " ", "t", "e", "n", "e", "r", " ", "a", "l",
      " ", "m", "e", "n", "o", "s", " ", "1", "0", " ", "c", "a", "r", "a",
      "c", "t", "e", "r", "e", "s" >>

\* "La descripción no puede exceder 500 caracteres"
ErrDescriptionTooLong ==
    <<"L", "a", " ", "d", "e", "s", "c", "r", "i", "p", "c", "i", "ó", "n",
      " ", "n", "o", " ", "p", "u", "e", "d", "e", " ", "e", "x", "c", "e",
      "d", "e", "r", " ", "5", "0", "0", " ", "c", "a", "r", "a", "c", "t",
      "e", "r", "e", "s" >>

\* "El precio debe ser un número válido"
ErrPriceNotNumber ==
    <<"E", "l", " ", "p", "r", "e", "c", "i", "o", " ", "d", "e", "b", "e",
      " ", "s", "e", "r", " ", "u", "n", " ", "n", "ú", "m", "e", "r", "o",
      " ", "v", "á", "l", "i", "d", "o" >>

\* "El precio no puede ser negativo"
ErrPriceNegative ==
    <<"E", "l", " ", "p", "r", "e", "c", "i", "o", " ", "n", "o", " ", "p",
      "u", "e", "d", "e", " ", "s", "e", "r", " ", "n", "e", "g", "a", "t",
      "i", "v", "o" >>

\* "El precio no puede exceder $999,999.99"
ErrPriceTooHigh ==
    <<"E", "l", " ", "p", "r", "e", "c", "i", "o", " ", "n", "o", " ", "p",
      "u", "e", "d", "e", " ", "e", "x", "c", "e", "d", "e", "r", " ", "$",
      "9", "9", "9", ",", "9", "9", "9", ".", "9", "9" >>

\* "La categoría del producto es requerida"
ErrCategoryRequired ==
    <<"L", "a", " ", "c", "a", "t", "e", "g", "o", "r", "í", "a", " ", "d",
      "e", "l", " ", "p", "r", "o", "d", "u", "c", "t", "o", " ", "e", "s",
      " ", "r", "e", "q", "u", "e", "r", "i", "d", "a" >>

\* "nombre"
MarkerNombre ==
    <<"n", "o", "m", "b", "r", "e" >>

\* "descripción"
MarkerDescripcion ==
    <<"d", "e", "s", "c", "r", "i", "p", "c", "i", "ó", "n" >>

\* "precio"
MarkerPrecio ==
    <<"p", "r", "e", "c", "i", "o" >>

\* "categoría"
MarkerCategoria ==
    <<"c", "a", "t", "e", "g", "o", "r", "í", "a" >>

(***************************************************************************)
(* Validation and presentation helpers (crud-operations.js).               *)
(***************************************************************************)
\* JavaScript's a < b and a > b on numbers: false when either is NaN
NumLess(a, b) ==
    ~IsNaN(a) /\ ~IsNaN(b) /\ a < b

NumGreater(a, b) ==
    ~IsNaN(a) /\ ~IsNaN(b) /\ a > b

\* !s || s.trim().length === 0, for a value that is a string
IsBlank(s) ==
    s = << >> \/ Len(Trim(s)) = 0

NameErrors(name) ==
    IF IsBlank(name) THEN <<ErrNameRequired>>
    ELSE IF Len(Trim(name)) < NAME_MIN THEN <<ErrNameTooShort>>
    ELSE IF Len(Trim(name)) > NAME_MAX THEN <<ErrNameTooLong>>
    ELSE << >>

DescriptionErrors(description) ==
    IF IsBlank(description) THEN <<ErrDescriptionRequired>>
    ELSE IF Len(Trim(description)) < DESCRIPTION_MIN THEN <<ErrDescriptionTooShort>>
    ELSE IF Len(Trim(description)) > DESCRIPTION_MAX THEN <<ErrDescriptionTooLong>>
    ELSE << >>

PriceErrors(price) ==
    IF IsNaN(price) THEN <<ErrPriceNotNumber>>
    ELSE IF price < 0 THEN <<ErrPriceNegative>>
    ELSE IF price > PRICE_MAX_CENTS THEN <<ErrPriceTooHigh>>
    ELSE << >>

CategoryErrors(category) ==
    IF IsBlank(category) THEN <<ErrCategoryRequired>> ELSE << >>

\* a validation that returns at the first violation it finds
ValidateProductDataFirstOnly(productData) ==
    LET all == NameErrors(productData.name) \o DescriptionErrors(productData.description)
               \o PriceErrors(productData.price) \o CategoryErrors(productData.category)
        errors == IF all = << >> THEN << >> ELSE <<Head(all)>>
    IN  [isValid |-> Len(errors) = 0, errors |-> errors]

\* validateProductData: every violation is collected, in field order
ValidateProductData(productData) ==
    LET errors == NameErrors(productData.name) \o DescriptionErrors(productData.description)
                  \o PriceErrors(productData.price) \o CategoryErrors(productData.category)
    IN  [isValid |-> Len(errors) = 0, errors |-> errors]

\* the checks createProduct and updateProduct make before they write:
\* TRUE when one of them throws
AdapterRejects(productData) ==
    \/ IsBlank(productData.name)
    \/ IsBlank(productData.description)
    \/ NumLess(productData.price, 0)
    \/ IsBlank(productData.category)

\* the fields createProduct and updateProduct send to the store
TrimmedFields(productData) ==
    [name |-> Trim(productData.name),
     description |-> Trim(productData.description),
     price |-> productData.price,
     category |-> Trim(productData.category)]

\* the digits of the amount without thousands separators
DigitsUngrouped(n) ==
    NatToString(n)

RECURSIVE GroupThousands(_)
GroupThousands(n) ==
    IF n < 1000 THEN NatToString(n)
    ELSE GroupThousands(n \div 1000) \o <<",">>
         \o SubSeq(NatToString(1000 + (n % 1000)), 2, 4)

\* formatPrice: Intl.NumberFormat en-US, currency USD, two decimals
FormatPrice(price) ==
    IF IsNaN(price) THEN <<"$", "0", ".", "0", "0">>
    ELSE LET a == IF price < 0 THEN 0 - price ELSE price
         IN  (IF price < 0 THEN <<"-">> ELSE << >>) \o <<"$">> \o GroupThousands(a \div 100)
             \o <<".">> \o SubSeq(NatToString(100 + (a % 100)), 2, 3)

RECURSIVE SumPrices(_)
SumPrices(products) ==
    IF products = << >> THEN 0 ELSE Head(products).price + SumPrices(Tail(products))

CategoriesOf(products) ==
    {products[i].category : i \in 1..Len(products)}

\* property names every object inherits from Object.prototype: read on the
\* object literal {} of stats.categories they give a function or an object
ObjectPrototypeKeys ==
    {<<"c", "o", "n", "s", "t", "r", "u", "c", "t", "o", "r">>,
     <<"t", "o", "S", "t", "r", "i", "n", "g">>,
     <<"v", "a", "l", "u", "e", "O", "f">>,
     <<"_", "_", "p", "r", "o", "t", "o", "_", "_">>}

\* stats.categories[category] is truthy: an own count that is neither 0 nor
\* NaN, or, without an own property, an inherited one
CategoryTruthy(categories, category) ==
    IF category \in DOMAIN categories
    THEN categories[category] # 0 /\ ~IsNaN(categories[category])
    ELSE category \in ObjectPrototypeKeys

\* stats.categories[category] = value; an assignment to __proto__ of a value
\* that is no object is ignored
SetCategory(categories, category, value) ==
    IF category = <<"_", "_", "p", "r", "o", "t", "o", "_", "_">> /\ category \notin DOMAIN categories
    THEN categories
    ELSE [c \in DOMAIN categories \cup {category} |->
            IF c = category THEN value ELSE categories[c]]

\* lines 442-446 for one product: ++ on an own count adds one, ++ on an
\* inherited function or object gives NaN, and a falsy entry becomes 1
CountCategory(categories, category) ==
    IF CategoryTruthy(categories, category)
    THEN SetCategory(categories, category,
                     IF category \in DOMAIN categories
                     THEN categories[category] + 1 ELSE NaN)
    ELSE SetCategory(categories, category, 1)

RECURSIVE CountCategories(_, _)
\* the forEach of getProductStats, on the categories counted so far
CountCategories(products, categories) ==
    IF products = << >> THEN categories
    ELSE CountCategories(Tail(products),
                         CountCategory(categories, Head(products).category))

\* getProductStats; averagePrice is the quotient totalPrice / length, kept as
\* numerator and denominator
GetProductStats(products) ==
    IF Len(products) = 0
    THEN [total |-> 0, averagePrice |-> [num |-> 0, den |-> 1],
          categories |-> << >>, totalValue |-> 0]
    ELSE [total |-> Len(products),
          averagePrice |-> [num |-> SumPrices(products), den |-> Len(products)],
          categories |-> CountCategories(products, << >>),
          totalValue |-> SumPrices(products)]

\* a non-negative quotient rounded to the nearest cent, halves upward, as the
\* currency formatter rounds it
RoundQuotient(q) ==
    (2 * q.num + q.den) \div (2 * q.den)

EscapeChar(c) ==
    IF c = "&" THEN <<"&", "a", "m", "p", ";">>
    ELSE IF c = "<" THEN <<"&", "l", "t", ";">>
    ELSE IF c = ">" THEN <<"&", "g", "t", ";">>
    ELSE <<c>>

RECURSIVE EscapeHtml(_)
\* escapeHtml: the text as markup
EscapeHtml(text) ==
    IF text = << >> THEN << >> ELSE EscapeChar(Head(text)) \o EscapeHtml(Tail(text))

\* createProductRow: what one table row shows and the id its buttons carry
CreateProductRow(product) ==
    [name |-> EscapeHtml(product.name),
     description |-> EscapeHtml(product.description),
     price |-> FormatPrice(product.price),
     category |-> EscapeHtml(product.category),
     id |-> product.id]

\* the four figures showProductStats writes in the statistics panel
StatsPanelOf(products) ==
    LET stats == GetProductStats(products)
    IN  [total |-> stats.total,
         averagePrice |-> FormatPrice(RoundQuotient(stats.averagePrice)),
         totalValue |-> FormatPrice(stats.totalValue),
         categories |-> Cardinality(DOMAIN stats.categories)]

(***************************************************************************)
(* State.                                                                  *)
(***************************************************************************)
VARIABLES
    pc,                  \* "boot" before DOMContentLoaded, "running" after
    isEditing,           \* app.js:32
    currentEditId,       \* app.js:33
    allProducts,         \* app.js:34, the local mirror
    unsubscribeProducts, \* app.js:35, the subscription its handle cancels, or NULL
    reconnectAttempts,   \* app.js:36
    subs,                \* the subscriptions opened so far, in order
    timers,              \* pending reconnect timers: the time each has waited
    form,                \* the values of the four inputs
    fieldErrors,         \* the .form-error text under each input (<< >>: none)
    submitDisabled,      \* elements.submitBtn.disabled
    hidden,              \* which of the three containers carry the class hidden
    tbodyRows,           \* the rows of elements.productsTbody
    tbodyListeners,      \* the click listeners added to elements.productsTbody
    statsPanel,          \* the #product-stats element: << >> or <<figures>>
    permissionPanels,    \* remediation panels inserted in the page
    store,               \* the remote collection
    nextId,              \* the next identifier the store assigns
    clock,               \* the last server timestamp handed out
    inflight,            \* remote writes whose promise has not settled
    notices,             \* the toasts shown by the last step
    calls,               \* the adapter calls made by the last step
    prompts,             \* the answers to the confirm() dialogs of the last step
    errorCode,           \* the code of the error the last step's callback received
    arg,                 \* the function a caller applies and its arguments
    result,              \* what that function returned (empty until applied)
    giveUpNotices,       \* terminal failure notices shown so far
    createdUnpushed,     \* the id a create that succeeded returned, until the next
                         \* snapshot is delivered (NULL otherwise)
    events               \* the user gestures and subscription errors so far

vars ==
    <<pc, isEditing, currentEditId, allProducts, unsubscribeProducts,
      reconnectAttempts, subs, timers, form, fieldErrors, submitDisabled, hidden,
      tbodyRows, tbodyListeners, statsPanel, permissionPanels, store, nextId,
      clock, inflight, notices, calls, prompts, errorCode,
      arg, result, giveUpNotices, createdUnpushed, events>>

controllerVars ==
    <<isEditing, currentEditId, allProducts, unsubscribeProducts, reconnectAttempts,
      form, fieldErrors, submitDisabled, hidden, tbodyRows, tbodyListeners,
      statsPanel, permissionPanels, giveUpNotices, createdUnpushed>>

Fields ==
    {"name", "description", "price", "category"}

\* what the user fills the form with: a valid product, the same with a
\* negative price, and a form with every field invalid
FormInputs ==
    {[name |-> <<" ", "A", "B">>, description |-> Rep("d", DESCRIPTION_MIN),
      price |-> <<"1", "2", ".", "5">>, category |-> <<"x">>],
     [name |-> <<" ", "A", "B">>, description |-> Rep("d", DESCRIPTION_MIN),
      price |-> <<"-", "1">>, category |-> <<"x">>],
     [name |-> <<"A">>, description |-> <<" ">>,
      price |-> << >>, category |-> << >>]}

\* what the user changes a record loaded for editing to: the name input cut
\* to its first character, the other inputs left as loaded
EditInputs(editing, f) ==
    IF editing THEN {[f EXCEPT !.name = SubSeq(f.name, 1, 1)]} ELSE {}

\* the error classes the live query reports
ErrorCodes ==
    {"permission-denied", "unavailable", "internal"}

\* the error class the store refuses a write with
WriteErrorCodes ==
    {"permission-denied"}

EmptyForm ==
    [name |-> << >>, description |-> << >>, price |-> << >>, category |-> << >>]

NoFieldErrors ==
    [f \in Fields |-> << >>]

NoData ==
    [name |-> << >>, description |-> << >>, price |-> 0, category |-> << >>]

\* showToast(message, type): message is the fixed text of the notice (a text
\* built from error.message is its fixed prefix), detail the attempt number
\* the text carries (0: none)
ToastWith(message, type, detail) ==
    [message |-> message, type |-> type, detail |-> detail]

Toast(message, type) ==
    ToastWith(message, type, 0)

(***************************************************************************)
(* The remote collection and its live query.                               *)
(***************************************************************************)
\* a product saved by an earlier session
EarlierProduct ==
    [id |-> 1, name |-> <<"C", "D">>, description |-> Rep("e", DESCRIPTION_MIN),
     price |-> 500, category |-> <<"y">>, createdAt |-> 1, updatedAt |-> 1]

\* the collection as the page finds it: empty, or holding the earlier product
InitialStores ==
    {{}, {EarlierProduct}}

RECURSIVE OrderByCreatedAtDesc(_)
\* orderBy('createdAt', 'desc')
OrderByCreatedAtDesc(docs) ==
    IF docs = {} THEN << >>
    ELSE LET d == CHOOSE d \in docs : \A e \in docs : e.createdAt <= d.createdAt
         IN  <<d>> \o OrderByCreatedAtDesc(docs \ {d})

\* the query ordered the other way: orderBy('createdAt', 'asc')
QuerySnapshotAscending(docs) ==
    LET s == OrderByCreatedAtDesc(docs)
    IN  [i \in 1..Len(s) |-> s[Len(s) + 1 - i]]

\* the record list one snapshot of the query delivers to the callback
QuerySnapshot(docs) ==
    OrderByCreatedAtDesc(docs)

StoreIds ==
    {d.id : d \in store}

DocOf(id) ==
    CHOOSE d \in store : d.id = id

\* addDoc: a new identifier, both timestamps stamped by the server
AddDoc(data) ==
    store \cup {[id |-> nextId, name |-> data.name, description |-> data.description,
                 price |-> data.price, category |-> data.category,
                 createdAt |-> clock + 1, updatedAt |-> clock + 1]}

\* an update that writes the payload of a create: createdAt stamped again
UpdateDocRestamped(id, data) ==
    (store \ {DocOf(id)})
    \cup {[id |-> id, name |-> data.name, description |-> data.description,
           price |-> data.price, category |-> data.category,
           createdAt |-> clock + 1, updatedAt |-> clock + 1]}

\* updateDoc of an existing document: the four fields and updatedAt
UpdateDoc(id, data) ==
    (store \ {DocOf(id)})
    \cup {[DocOf(id) EXCEPT !.name = data.name, !.description = data.description,
                            !.price = data.price, !.category = data.category,
                            !.updatedAt = clock + 1]}

\* a delete that leaves the document in the collection
DeleteDocKept(id) ==
    store

\* deleteDoc
DeleteDoc(id) ==
    {d \in store : d.id # id}

(***************************************************************************)
(* UI controller (app.js): helpers.                                        *)
(***************************************************************************)
\* a loading indicator that is left as it is
LoadingStateKept(h, isLoading) ==
    h

\* updateLoadingState
UpdateLoadingState(h, isLoading) ==
    IF isLoading
    THEN [h EXCEPT !.loading = FALSE, !.emptyState = TRUE, !.productsContainer = TRUE]
    ELSE [h EXCEPT !.loading = TRUE]

\* showEmptyState
ShowEmptyState(h) ==
    [h EXCEPT !.emptyState = FALSE, !.productsContainer = TRUE]

\* hideEmptyState
HideEmptyState(h) ==
    [h EXCEPT !.emptyState = TRUE, !.productsContainer = FALSE]

\* getFormData
GetFormData(f) ==
    [name |-> f.name, description |-> f.description,
     price |-> ParseFloat(f.price), category |-> f.category]

\* showFieldError
ShowFieldError(fe, fieldName, errorMessage) ==
    [fe EXCEPT ![fieldName] = errorMessage]

\* clearFieldError
ClearFieldError(fe, fieldName) ==
    [fe EXCEPT ![fieldName] = << >>]

\* a clear that leaves the annotations in place
FieldErrorsKept(fe) ==
    fe

\* clearAllFieldErrors: the annotation of each of the four fields removed
ClearAllFieldErrors(fe) ==
    [f \in Fields |-> ClearFieldError(fe, f)[f]]

\* the field showValidationErrors attaches an error message to ("": none)
FieldOfError(error) ==
    LET lower == ToLowerCase(error)
    IN  IF Includes(lower, MarkerNombre) THEN "name"
        ELSE IF Includes(lower, MarkerDescripcion) THEN "description"
        ELSE IF Includes(lower, MarkerPrecio) THEN "price"
        ELSE IF Includes(lower, MarkerCategoria) THEN "category"
        ELSE ""

RECURSIVE ShowValidationErrors(_, _)
\* showValidationErrors: the annotations after errors.forEach
ShowValidationErrors(errors, fe) ==
    IF errors = << >> THEN fe
    ELSE LET field == FieldOfError(Head(errors))
         IN  ShowValidationErrors(Tail(errors),
                 IF field = "" THEN fe ELSE ShowFieldError(fe, field, Head(errors)))

\* the field name validateField is called with, as text
FieldNameText(fieldName) ==
    IF fieldName = "name" THEN <<"n", "a", "m", "e">>
    ELSE IF fieldName = "description"
         THEN <<"d", "e", "s", "c", "r", "i", "p", "t", "i", "o", "n">>
    ELSE IF fieldName = "price" THEN <<"p", "r", "i", "c", "e">>
    ELSE <<"c", "a", "t", "e", "g", "o", "r", "y">>

\* the messages validateProductData returns
ValidationMessages ==
    {ErrDataRequired, ErrNameRequired, ErrNameTooShort, ErrNameTooLong,
     ErrDescriptionRequired, ErrDescriptionTooShort, ErrDescriptionTooLong,
     ErrPriceNotNumber, ErrPriceNegative, ErrPriceTooHigh, ErrCategoryRequired}

\* the filter of validateField, line 525, for each message and field name:
\* error.toLowerCase().includes(fieldName.toLowerCase())
MentionsFieldName ==
    [error \in ValidationMessages, fieldName \in Fields |->
        Includes(ToLowerCase(error), ToLowerCase(FieldNameText(fieldName)))]

\* validateField: the annotations after it ran on fieldName
ValidateField(fieldName, f, fe) ==
    LET validation == ValidateProductData(GetFormData(f))
        Mentions(error) == MentionsFieldName[error, fieldName]
        fieldErrs == SelectSeq(validation.errors, Mentions)
    IN  IF Len(fieldErrs) > 0 THEN ShowFieldError(fe, fieldName, fieldErrs[1])
        ELSE ClearFieldError(fe, fieldName)

\* a submission that goes on after a failed validation
SubmitNeverBlocked(validation) ==
    FALSE

\* handleFormSubmit, line 204: an invalid form stops the submission
SubmitBlocked(validation) ==
    ~validation.isValid

\* a submission that ignores the mode
SubmitAlwaysCreates(editing) ==
    "create"

\* handleFormSubmit, line 212: the adapter operation a submission calls
SubmitOperation(editing) ==
    IF editing THEN "update" ELSE "create"

\* a form load that leaves the price input empty
LoadFormPriceBlank(product) ==
    [name |-> product.name, description |-> product.description,
     price |-> << >>, category |-> product.category]

\* loadForm: the values written in the four inputs
LoadForm(product) ==
    [name |-> product.name, description |-> product.description,
     price |-> NumberToString(product.price), category |-> product.category]

\* a callback that assigns the mirror before it looks at the error
MirrorAssignedFirst(products, error, mirror) ==
    products

\* the subscription callback, lines 152 to 172: the mirror after it ran
MirrorAfterCallback(products, error, mirror) ==
    IF error THEN mirror ELSE products

\* an error branch that hides the loading indicator and nothing else
HiddenAfterErrorLoadingOnly(h) ==
    UpdateLoadingState(h, FALSE)

\* the subscription callback, lines 167 and 168: the containers after an error
HiddenAfterError(h) ==
    ShowEmptyState(UpdateLoadingState(h, FALSE))

\* a render that shows the table for an empty list as well
HiddenAfterRenderTableOnly(h, products) ==
    UpdateLoadingState(HideEmptyState(h), FALSE)

\* renderProducts followed by updateLoadingState(false): the containers
HiddenAfterRender(h, products) ==
    UpdateLoadingState(IF Len(products) = 0 THEN ShowEmptyState(h) ELSE HideEmptyState(h),
                       FALSE)

\* a reconnection that is not bounded
CanAlwaysReconnect(attempts) ==
    TRUE

\* attemptReconnect, line 721
CanReconnect(attempts) ==
    attempts < MAX_RECONNECT_ATTEMPTS

\* a timer that runs without waiting
NoReconnectDelay(waited) ==
    TRUE

\* the setTimeout of attemptReconnect: a timer runs once its delay has passed
ReconnectDelayElapsed(waited) ==
    waited >= RECONNECT_DELAY_MS

\* getAllProducts returning: a subscription the SDK delivers callbacks for
OpenSubscription(ss) ==
    Append(ss, [live |-> TRUE, cancelled |-> FALSE])

\* a reconnection that does not cancel the subscription it replaces
SubscriptionKept(ss, handle) ==
    ss

\* if (unsubscribeProducts) unsubscribeProducts()
CancelSubscription(ss, handle) ==
    IF handle = NULL THEN ss
    ELSE [ss EXCEPT ![handle] = [live |-> FALSE, cancelled |-> TRUE]]

RemoveAt(s, i) ==
    SubSeq(s, 1, i - 1) \o SubSeq(s, i + 1, Len(s))

InMirror(id) ==
    \E i \in 1..Len(allProducts) : allProducts[i].id = id

MirrorRecord(id) ==
    allProducts[CHOOSE i \in 1..Len(allProducts) : allProducts[i].id = id]

RowIds ==
    {tbodyRows[i].id : i \in 1..Len(tbodyRows)}

\* a listener start without the catch: the exception of getAllProducts
\* escapes and the page stays as it was
StartRealTimeListenerNoCatch(ss, throws) ==
    IF throws
    THEN /\ subs' = ss
         /\ UNCHANGED <<unsubscribeProducts, hidden>>
         /\ notices' = << >>
    ELSE /\ subs' = OpenSubscription(ss)
         /\ unsubscribeProducts' = Len(ss) + 1
         /\ UNCHANGED hidden
         /\ notices' = << >>

\* startRealTimeListener on the subscriptions ss; throws: getAllProducts throws
StartRealTimeListener(ss, throws) ==
    IF throws
    THEN /\ subs' = ss
         /\ UNCHANGED unsubscribeProducts
         /\ hidden' = ShowEmptyState(UpdateLoadingState(hidden, FALSE))
         /\ notices' = <<Toast("Error al conectar con la base de datos", "error")>>
    ELSE /\ subs' = OpenSubscription(ss)
         /\ unsubscribeProducts' = Len(ss) + 1
         /\ UNCHANGED hidden
         /\ notices' = << >>

(***************************************************************************)
(* Initial state: the module-level variables of app.js, the page as        *)
(* loaded (the loading indicator shown), the collection as it was left.    *)
(***************************************************************************)
PageInit ==
    /\ pc = "boot"
    /\ isEditing = FALSE
    /\ currentEditId = NULL
    /\ allProducts = << >>
    /\ unsubscribeProducts = NULL
    /\ reconnectAttempts = 0
    /\ subs = << >>
    /\ timers = << >>
    /\ form = EmptyForm
    /\ fieldErrors = NoFieldErrors
    /\ submitDisabled = FALSE
    /\ hidden = [loading |-> FALSE, emptyState |-> TRUE, productsContainer |-> TRUE]
    /\ tbodyRows = << >>
    /\ tbodyListeners = 0
    /\ statsPanel = << >>
    /\ permissionPanels = 0
    /\ store \in InitialStores
    /\ nextId = Cardinality(store) + 1
    /\ clock = Cardinality(store)
    /\ inflight = << >>
    /\ notices = << >>
    /\ errorCode = ""
    /\ prompts = << >>
    /\ calls = << >>
    /\ giveUpNotices = 0
    /\ createdUnpushed = NULL
    /\ events = 0

\* no function of the module is being applied by a caller
NoArg ==
    [fn |-> "none"]

Init ==
    /\ PageInit
    /\ arg = NoArg
    /\ result = << >>

(***************************************************************************)
(* Page start and the subscription.                                        *)
(***************************************************************************)
\* the DOMContentLoaded handler
DOMContentLoaded ==
    /\ UNCHANGED events
    /\ UNCHANGED <<arg, result>>
    /\ UNCHANGED <<isEditing, currentEditId, allProducts, reconnectAttempts, timers,
                   form, fieldErrors, submitDisabled, tbodyRows, tbodyListeners,
                   statsPanel, permissionPanels, store, nextId, clock, inflight,
                   giveUpNotices, createdUnpushed>>
    /\ pc = "boot"
    /\ pc' = "running"
    /\ \E throws \in BOOLEAN : StartRealTimeListener(subs, throws)
    /\ errorCode' = ""
    /\ prompts' = << >>
    /\ calls' = << >>

\* the subscription callback called with a snapshot: callback(products)
SnapshotPush ==
    /\ UNCHANGED events
    /\ UNCHANGED <<arg, result>>
    /\ UNCHANGED <<pc, isEditing, currentEditId, unsubscribeProducts, reconnectAttempts,
                   subs, timers, form, fieldErrors, submitDisabled, permissionPanels,
                   store, nextId, clock, inflight, giveUpNotices>>
    /\ pc \in {"running", "unloading"}
    /\ \E s \in DOMAIN subs :
        /\ subs[s].live
        /\ LET products == QuerySnapshot(store)
           IN  /\ Len(products) = 0 \/ tbodyListeners < MaxListeners
               /\ allProducts' = MirrorAfterCallback(products, FALSE, allProducts)
               /\ hidden' = HiddenAfterRender(hidden, products)
               /\ IF Len(products) = 0
                  THEN UNCHANGED <<tbodyRows, tbodyListeners, statsPanel>>
                  ELSE /\ tbodyRows' = [i \in 1..Len(products) |-> CreateProductRow(products[i])]
                       /\ tbodyListeners' = tbodyListeners + 1
                       /\ statsPanel' = <<StatsPanelOf(products)>>
    /\ notices' = << >>
    /\ errorCode' = ""
    /\ prompts' = << >>
    /\ calls' = << >>
    /\ createdUnpushed' = NULL

\* a listener that goes on delivering after it has reported an error
ListenerStaysLive(sub) ==
    sub

\* onSnapshot's error callback: the listener that reported an error is
\* terminated and delivers nothing more
ListenerAfterError(sub) ==
    [sub EXCEPT !.live = FALSE]

\* a dispatch that takes every error for a connection failure
EveryErrorUnavailable(code) ==
    "unavailable"

\* lines 156-164: the branch of the error callback an error code selects
ErrorClass(code) ==
    IF code = "permission-denied" THEN "permission"
    ELSE IF code = "unavailable" THEN "unavailable"
    ELSE "other"

\* the subscription callback called with an error: callback([], error); the
\* SDK delivers nothing more to a listener that has failed
SnapshotError ==
    /\ events < MaxEvents
    /\ events' = events + 1
    /\ UNCHANGED <<arg, result>>
    /\ UNCHANGED <<pc, isEditing, currentEditId, unsubscribeProducts, form, fieldErrors,
                   submitDisabled, tbodyRows, tbodyListeners, statsPanel, store, nextId,
                   clock, inflight, createdUnpushed>>
    /\ pc \in {"running", "unloading"}
    /\ \E s \in DOMAIN subs, code \in ErrorCodes :
        /\ subs[s].live
        /\ subs' = [subs EXCEPT ![s] = ListenerAfterError(subs[s])]
        /\ errorCode' = code
        /\ IF ErrorClass(code) = "permission"
           THEN /\ notices' = <<Toast("Error de permisos: Configura las reglas de Firestore",
                                      "error")>>
                /\ permissionPanels' = permissionPanels + 1
                /\ UNCHANGED <<reconnectAttempts, timers, giveUpNotices>>
           ELSE IF ErrorClass(code) = "unavailable"
           THEN /\ UNCHANGED permissionPanels
                /\ IF CanReconnect(reconnectAttempts)
                   THEN /\ reconnectAttempts' = reconnectAttempts + 1
                        /\ timers' = Append(timers, 0)
                        /\ UNCHANGED giveUpNotices
                        /\ notices' =
                             <<Toast("Firestore no disponible: Verifica tu conexión", "error"),
                               ToastWith("Reintentando conexión... ", "warning",
                                         reconnectAttempts + 1)>>
                   ELSE /\ UNCHANGED <<reconnectAttempts, timers>>
                        /\ giveUpNotices' = giveUpNotices + 1
                        /\ notices' =
                             <<Toast("Firestore no disponible: Verifica tu conexión", "error"),
                               Toast("No se pudo conectar después de varios intentos", "error")>>
           ELSE /\ notices' = <<Toast("Error al cargar productos: ", "error")>>
                /\ UNCHANGED <<permissionPanels, reconnectAttempts, timers, giveUpNotices>>
        /\ allProducts' = MirrorAfterCallback(<< >>, TRUE, allProducts)
        /\ hidden' = HiddenAfterError(hidden)
    /\ prompts' = << >>
    /\ calls' = << >>

\* one second passes on the pending timers (a wait beyond the delay is not counted)
Tick ==
    /\ UNCHANGED events
    /\ UNCHANGED <<arg, result>>
    /\ \E i \in DOMAIN timers : ~ReconnectDelayElapsed(timers[i])
    /\ timers' = [i \in DOMAIN timers |->
                    IF timers[i] + 1000 > RECONNECT_DELAY_MS THEN RECONNECT_DELAY_MS
                    ELSE timers[i] + 1000]
    /\ notices' = << >>
    /\ errorCode' = ""
    /\ prompts' = << >>
    /\ calls' = << >>
    /\ UNCHANGED <<pc, controllerVars, subs, store, nextId, clock, inflight>>

\* the timer callback of attemptReconnect
ReconnectTimerFire ==
    /\ UNCHANGED events
    /\ UNCHANGED <<arg, result>>
    /\ UNCHANGED <<pc, isEditing, currentEditId, allProducts, reconnectAttempts, form,
                   fieldErrors, submitDisabled, tbodyRows, tbodyListeners, statsPanel,
                   permissionPanels, store, nextId, clock, inflight, giveUpNotices,
                   createdUnpushed>>
    /\ pc = "running"
    /\ timers # << >>
    /\ ReconnectDelayElapsed(Head(timers))
    /\ timers' = Tail(timers)
    /\ \E throws \in BOOLEAN :
        StartRealTimeListener(CancelSubscription(subs, unsubscribeProducts), throws)
    /\ errorCode' = ""
    /\ prompts' = << >>
    /\ calls' = << >>

\* the beforeunload listener, lines 775-780: the current subscription is
\* cancelled; from then on the page's timers and handlers no longer run
BeforeUnload ==
    /\ events < MaxEvents
    /\ events' = events + 1
    /\ UNCHANGED <<arg, result>>
    /\ UNCHANGED <<isEditing, currentEditId, allProducts, unsubscribeProducts,
                   reconnectAttempts, timers, form, fieldErrors, submitDisabled,
                   hidden, tbodyRows, tbodyListeners, statsPanel, permissionPanels,
                   store, nextId, clock, inflight, giveUpNotices, createdUnpushed>>
    /\ pc \in {"boot", "running"}
    /\ pc' = "unloading"
    /\ subs' = CancelSubscription(subs, unsubscribeProducts)
    /\ notices' = << >>
    /\ errorCode' = ""
    /\ prompts' = << >>
    /\ calls' = << >>
(***************************************************************************)
(* The form.                                                               *)
(***************************************************************************)
\* the input listener of a text field and the two change listeners of the
\* category select (validateField, then clearFieldError), run when the user
\* sets field to values[field]; st holds the form and its annotations
AfterInput(field, values, st) ==
    IF st.form[field] = values[field] THEN st
    ELSE LET changed == [st.form EXCEPT ![field] = values[field]]
         IN  [form |-> changed,
              fieldErrors |->
                  IF field = "category"
                  THEN ClearFieldError(ValidateField("category", changed, st.fieldErrors),
                                       "category")
                  ELSE ClearFieldError(st.fieldErrors, field)]

\* the user fills the form, field after field: one input (or change) event for
\* each field whose value changes
FillForm ==
    /\ events < MaxEvents
    /\ events' = events + 1
    /\ UNCHANGED <<arg, result>>
    /\ UNCHANGED <<pc, isEditing, currentEditId, allProducts, unsubscribeProducts,
                   reconnectAttempts, subs, timers, submitDisabled, hidden, tbodyRows,
                   tbodyListeners, statsPanel, permissionPanels, store, nextId, clock,
                   inflight, giveUpNotices, createdUnpushed>>
    /\ pc = "running"
    /\ \E values \in FormInputs \cup EditInputs(isEditing, form) :
        LET st0 == [form |-> form, fieldErrors |-> fieldErrors]
            st1 == AfterInput("name", values, st0)
            st2 == AfterInput("description", values, st1)
            st3 == AfterInput("price", values, st2)
            st == AfterInput("category", values, st3)
        IN  /\ form # values
            /\ form' = st.form
            /\ fieldErrors' = st.fieldErrors
    /\ notices' = << >>
    /\ errorCode' = ""
    /\ prompts' = << >>
    /\ calls' = << >>

\* the blur listener of the input fieldName: validateField(fieldName)
Blur(fieldName) ==
    /\ events < MaxEvents
    /\ events' = events + 1
    /\ UNCHANGED <<arg, result>>
    /\ UNCHANGED <<pc, isEditing, currentEditId, allProducts, unsubscribeProducts,
                   reconnectAttempts, subs, timers, form, submitDisabled, hidden,
                   tbodyRows, tbodyListeners, statsPanel, permissionPanels, store,
                   nextId, clock, inflight, giveUpNotices, createdUnpushed>>
    /\ pc = "running"
    /\ fieldErrors' = ValidateField(fieldName, form, fieldErrors)
    /\ notices' = << >>
    /\ errorCode' = ""
    /\ prompts' = << >>
    /\ calls' = << >>

\* the user leaves one of the three inputs that have a blur listener
BlurField ==
    \E fieldName \in {"name", "description", "price"} : Blur(fieldName)

\* a submit button that is never disabled
SubmitButtonEnabled(isLoading) ==
    FALSE

\* setSubmitButtonLoading: the disabled attribute of the submit button
SetSubmitButtonLoading(isLoading) ==
    isLoading

\* handleFormSubmit up to its await; a disabled submit button submits nothing
HandleFormSubmit ==
    /\ events < MaxEvents
    /\ events' = events + 1
    /\ UNCHANGED <<arg, result>>
    /\ UNCHANGED <<pc, isEditing, currentEditId, allProducts, unsubscribeProducts,
                   reconnectAttempts, subs, timers, form, hidden, tbodyRows,
                   tbodyListeners, statsPanel, permissionPanels, store, nextId, clock,
                   giveUpNotices, createdUnpushed>>
    /\ pc = "running"
    /\ ~submitDisabled
    /\ errorCode' = ""
    /\ prompts' = << >>
    /\ LET formData == GetFormData(form)
           validation == ValidateProductData(formData)
           op == SubmitOperation(isEditing)
           id == IF op = "update" THEN currentEditId ELSE NULL
       IN  IF SubmitBlocked(validation)
           THEN /\ fieldErrors' = ShowValidationErrors(validation.errors, fieldErrors)
                /\ notices' = <<Toast("Por favor corrige los errores en el formulario",
                                      "error")>>
                /\ calls' = << >>
                /\ submitDisabled' = SetSubmitButtonLoading(FALSE)
                /\ UNCHANGED inflight
           ELSE /\ calls' = <<[op |-> op, id |-> id, data |-> formData]>>
                /\ UNCHANGED fieldErrors
                /\ IF AdapterRejects(formData) \/ (op = "update" /\ id = NULL)
                   THEN /\ notices' = <<Toast("Error: ", "error")>>
                        /\ submitDisabled' = SetSubmitButtonLoading(FALSE)
                        /\ UNCHANGED inflight
                   ELSE /\ Len(inflight) < MaxInFlight
                        /\ inflight' = Append(inflight,
                               [op |-> op, id |-> id, data |-> TrimmedFields(formData),
                                stage |-> "sent", code |-> ""])
                        /\ submitDisabled' = SetSubmitButtonLoading(TRUE)
                        /\ notices' = << >>

\* handleCancelEdit; the cancel button is shown in edit mode only
HandleCancelEdit ==
    /\ events < MaxEvents
    /\ events' = events + 1
    /\ UNCHANGED <<arg, result>>
    /\ UNCHANGED <<pc, allProducts, unsubscribeProducts, reconnectAttempts, subs, timers,
                   submitDisabled, hidden, tbodyRows, tbodyListeners, statsPanel,
                   permissionPanels, store, nextId, clock, inflight, giveUpNotices,
                   createdUnpushed>>
    /\ pc = "running"
    /\ isEditing
    /\ form' = EmptyForm
    /\ fieldErrors' = ClearAllFieldErrors(fieldErrors)
    /\ isEditing' = FALSE
    /\ currentEditId' = NULL
    /\ notices' = <<Toast("Edición cancelada", "info")>>
    /\ errorCode' = ""
    /\ prompts' = << >>
    /\ calls' = << >>

(***************************************************************************)
(* The table's action buttons.  A click reaches every listener that        *)
(* setupActionButtons has added to the table body.                         *)
(***************************************************************************)
\* a click on a row's edit button: handleEditProduct, once per listener
ClickEdit ==
    /\ events < MaxEvents
    /\ events' = events + 1
    /\ UNCHANGED <<arg, result>>
    /\ UNCHANGED <<pc, allProducts, unsubscribeProducts, reconnectAttempts, subs, timers,
                   fieldErrors, submitDisabled, hidden, tbodyRows, tbodyListeners,
                   statsPanel, permissionPanels, store, nextId, clock, inflight,
                   giveUpNotices, createdUnpushed>>
    /\ pc = "running"
    /\ ~hidden.productsContainer
    /\ tbodyListeners >= 1
    /\ \E id \in RowIds :
        IF InMirror(id)
        THEN /\ form' = LoadForm(MirrorRecord(id))
             /\ isEditing' = TRUE
             /\ currentEditId' = id
             /\ notices' = Rep(Toast("Modo edición activado", "info"), tbodyListeners)
        ELSE /\ notices' = Rep(Toast("Producto no encontrado", "error"), tbodyListeners)
             /\ UNCHANGED <<form, isEditing, currentEditId>>
    /\ errorCode' = ""
    /\ prompts' = << >>
    /\ calls' = << >>

\* a handler that calls deleteProduct whatever the answer to confirm() was
UnconfirmedDeletes(id, answers) ==
    [k \in DOMAIN answers |-> [op |-> "delete", id |-> id, data |-> NoData]]

\* handleDeleteProduct, lines 427-431: one deleteProduct call for each run of
\* the handler whose confirm() dialog was accepted
ConfirmedDeletes(id, answers) ==
    [k \in 1..Len(SelectSeq(answers, LAMBDA a : a)) |->
        [op |-> "delete", id |-> id, data |-> NoData]]

\* a click on a row's delete button: handleDeleteProduct up to its await, once
\* per listener; answers are the user's answers to the confirmation prompts
ClickDelete ==
    /\ events < MaxEvents
    /\ events' = events + 1
    /\ UNCHANGED <<arg, result>>
    /\ pc = "running"
    /\ ~hidden.productsContainer
    /\ tbodyListeners >= 1
    /\ \E id \in RowIds :
        IF InMirror(id)
        THEN \E answers \in [1..tbodyListeners -> BOOLEAN] :
                LET deletes == ConfirmedDeletes(id, answers)
                IN  /\ Len(inflight) + Len(deletes) <= MaxInFlight
                    /\ errorCode' = ""
                    /\ prompts' = answers
                    /\ calls' = deletes
                    /\ inflight' = inflight \o
                           [k \in DOMAIN deletes |->
                               [op |-> "delete", id |-> id, data |-> NoData,
                                stage |-> "sent", code |-> ""]]
                    /\ notices' = << >>
        ELSE /\ notices' = Rep(Toast("Producto no encontrado", "error"), tbodyListeners)
             /\ errorCode' = ""
             /\ prompts' = << >>
             /\ calls' = << >>
             /\ UNCHANGED inflight
    /\ UNCHANGED <<pc, controllerVars, subs, timers, store, nextId, clock>>

(***************************************************************************)
(* Remote writes: the store answers, then the awaiting handler resumes.    *)
(***************************************************************************)
\* the store applies a write it received; updateDoc of a missing document fails
StoreApply ==
    /\ UNCHANGED events
    /\ UNCHANGED <<arg, result>>
    /\ \E i \in DOMAIN inflight :
        LET w == inflight[i]
        IN  /\ w.stage = "sent"
            /\ IF w.op = "create"
               THEN /\ store' = AddDoc(w.data)
                    /\ nextId' = nextId + 1
                    /\ clock' = clock + 1
                    /\ inflight' = [inflight EXCEPT ![i].stage = "ok", ![i].id = nextId]
               ELSE IF w.op = "update"
               THEN IF w.id \in StoreIds
                    THEN /\ store' = UpdateDoc(w.id, w.data)
                         /\ clock' = clock + 1
                         /\ inflight' = [inflight EXCEPT ![i].stage = "ok"]
                         /\ UNCHANGED nextId
                    ELSE /\ inflight' = [inflight EXCEPT ![i].stage = "err",
                                                         ![i].code = "not-found"]
                         /\ UNCHANGED <<store, nextId, clock>>
               ELSE /\ store' = DeleteDoc(w.id)
                    /\ inflight' = [inflight EXCEPT ![i].stage = "ok"]
                    /\ UNCHANGED <<nextId, clock>>
    /\ notices' = << >>
    /\ errorCode' = ""
    /\ prompts' = << >>
    /\ calls' = << >>
    /\ UNCHANGED <<pc, controllerVars, subs, timers>>

\* the store refuses a write it received
StoreReject ==
    /\ UNCHANGED events
    /\ UNCHANGED <<arg, result>>
    /\ \E i \in DOMAIN inflight, code \in WriteErrorCodes :
        /\ inflight[i].stage = "sent"
        /\ inflight' = [inflight EXCEPT ![i].stage = "err", ![i].code = code]
    /\ notices' = << >>
    /\ errorCode' = ""
    /\ prompts' = << >>
    /\ calls' = << >>
    /\ UNCHANGED <<pc, controllerVars, subs, timers, store, nextId, clock>>

\* a delete handler without its catch: the rejection escapes, nothing is shown
DeleteFailureUnhandled(stage) ==
    IF stage = "ok"
    THEN <<Toast("Producto eliminado exitosamente", "success")>>
    ELSE << >>

\* handleDeleteProduct, lines 430-436: the notice after the await, from the
\* try on success and from the catch on failure
DeleteSettledNotices(stage) ==
    <<Toast(IF stage = "ok"
            THEN "Producto eliminado exitosamente"
            ELSE "Error al eliminar: ",
            IF stage = "ok" THEN "success" ELSE "error")>>

\* a submit handler that leaves edit mode whether the write succeeded or not
EditingEndsAfterFormWrite(stage, editing) ==
    FALSE

\* handleFormSubmit, lines 213-226: exitEditMode runs after an update or a
\* create that succeeded; the catch branch does not touch the mode
EditingAfterFormWrite(stage, editing) ==
    IF stage = "err" THEN editing ELSE FALSE

\* the promise of a write settles: the rest of handleFormSubmit (a create or an
\* update) or of handleDeleteProduct (a delete)
WriteSettled ==
    /\ UNCHANGED events
    /\ UNCHANGED <<arg, result>>
    /\ UNCHANGED <<pc, allProducts, unsubscribeProducts, reconnectAttempts, subs, timers,
                   hidden, tbodyRows, tbodyListeners, statsPanel, permissionPanels,
                   store, nextId, clock, giveUpNotices>>
    /\ pc = "running"
    /\ \E i \in DOMAIN inflight :
        LET w == inflight[i]
        IN  /\ w.stage # "sent"
            /\ inflight' = RemoveAt(inflight, i)
            /\ IF w.op = "delete"
               THEN /\ notices' = DeleteSettledNotices(w.stage)
                    /\ UNCHANGED <<form, fieldErrors, isEditing, currentEditId,
                                   submitDisabled, createdUnpushed>>
               ELSE /\ submitDisabled' = SetSubmitButtonLoading(FALSE)
                    /\ isEditing' = EditingAfterFormWrite(w.stage, isEditing)
                    /\ IF w.stage = "err"
                       THEN /\ notices' = <<Toast("Error: ", "error")>>
                            /\ UNCHANGED <<form, fieldErrors, currentEditId,
                                           createdUnpushed>>
                       ELSE IF w.op = "update"
                       THEN /\ notices' = <<Toast("Producto actualizado exitosamente",
                                                  "success")>>
                            /\ currentEditId' = NULL
                            /\ UNCHANGED <<form, fieldErrors, createdUnpushed>>
                       ELSE /\ notices' = <<Toast("Producto creado exitosamente",
                                                  "success")>>
                            /\ form' = EmptyForm
                            /\ fieldErrors' = ClearAllFieldErrors(fieldErrors)
                            /\ currentEditId' = NULL
                            /\ createdUnpushed' = w.id
    /\ errorCode' = ""
    /\ prompts' = << >>
    /\ calls' = << >>


(***************************************************************************)
(* The store adapter called directly.  createProduct, updateProduct and    *)
(* deleteProduct are exported functions: a caller can pass any JavaScript  *)
(* value.  A value is its type tag with its text or its number.            *)
(***************************************************************************)
Undefined ==
    [t |-> "undefined", s |-> << >>, n |-> 0]

Str(s) ==
    [t |-> "string", s |-> s, n |-> 0]

Num(n) ==
    [t |-> "number", s |-> << >>, n |-> n]

\* a product object that passes every check of the adapter
ValidInput ==
    [present |-> TRUE, name |-> Str(<<"A", "B", " ">>), description |-> Str(Rep("e", 10)),
     price |-> Num(250), category |-> Str(<<"x">>)]

\* no product object at all
AbsentInput ==
    [present |-> FALSE, name |-> Undefined, description |-> Undefined,
     price |-> Undefined, category |-> Undefined]

\* a text field absent, not a string, empty, blank
TextDefects ==
    {Undefined, Num(5), Str(<< >>), Str(<<" ">>)}

\* a price absent, a string, NaN, negative
PriceDefects ==
    {Undefined, Str(<<"5">>), Num(NaN), Num(-1)}

\* the valid object, the free product, and the objects with one defect
AdapterInputs ==
    {ValidInput, AbsentInput, [ValidInput EXCEPT !.price = Num(0)]}
    \cup {[ValidInput EXCEPT !.name = d] : d \in TextDefects}
    \cup {[ValidInput EXCEPT !.description = d] : d \in TextDefects}
    \cup {[ValidInput EXCEPT !.price = d] : d \in PriceDefects}
    \cup {[ValidInput EXCEPT !.category = d] : d \in TextDefects}

\* an id that resolves at the start, one that may not, and the defects
IdInputs ==
    {Str(<<"1">>), Str(<<"2">>), Str(<< >>), Num(1), Undefined}

\* what updateProduct is called with: any id with the valid object, any
\* object with the first id
UpdateInputs ==
    {<<id, ValidInput>> : id \in IdInputs}
    \cup {<<Str(<<"1">>), pd>> : pd \in AdapterInputs}

\* !v || typeof v !== 'string' || v.trim().length === 0
TextRejected(v) ==
    \/ v.t # "string"
    \/ v.s = << >>
    \/ Trim(v.s) = << >>

\* typeof price !== 'number' || price < 0
PriceRejected(v) ==
    \/ v.t # "number"
    \/ NumLess(v.n, 0)

\* !productId || typeof productId !== 'string'
IdRejected(v) ==
    \/ v.t # "string"
    \/ v.s = << >>

\* the checks createProduct and updateProduct make on the product object
ProductDataRejected(pd) ==
    \/ ~pd.present
    \/ TextRejected(pd.name)
    \/ TextRejected(pd.description)
    \/ PriceRejected(pd.price)
    \/ TextRejected(pd.category)

\* productToSave and updateData: the texts trimmed, the price as it is
PreparedData(pd) ==
    [name |-> Trim(pd.name.s), description |-> Trim(pd.description.s),
     price |-> pd.price.n, category |-> Trim(pd.category.s)]

\* the document a string id names
DocId(v) ==
    DigitsValue(v.s)

\* the adapter call op(id, pd): a rejected promise when a check fails, and
\* otherwise the write handed to the store
AdapterCall(op, idValue, pd, rejected) ==
    /\ UNCHANGED <<arg, result>>
    /\ events < MaxEvents
    /\ events' = events + 1
    /\ Len(inflight) < MaxInFlight
    /\ calls' = <<[op |-> op, id |-> idValue, data |-> pd]>>
    /\ inflight' = Append(inflight,
            IF rejected
            THEN [op |-> op, id |-> NULL, data |-> NoData,
                  stage |-> "err", code |-> "validation"]
            ELSE [op |-> op,
                  id |-> IF op = "create" THEN NULL ELSE DocId(idValue),
                  data |-> IF op = "delete" THEN NoData ELSE PreparedData(pd),
                  stage |-> "sent", code |-> ""])
    /\ notices' = << >>
    /\ errorCode' = ""
    /\ prompts' = << >>
    /\ UNCHANGED <<pc, controllerVars, subs, timers, store, nextId, clock>>

CreateProductCall ==
    \E pd \in AdapterInputs :
        AdapterCall("create", Undefined, pd, ProductDataRejected(pd))

UpdateProductCall ==
    \E u \in UpdateInputs :
        AdapterCall("update", u[1], u[2], IdRejected(u[1]) \/ ProductDataRejected(u[2]))

DeleteProductCall ==
    \E id \in IdInputs :
        AdapterCall("delete", id, AbsentInput, IdRejected(id))

\* the caller's await resumes: the promise of a call is consumed
PromiseSettled ==
    /\ UNCHANGED <<arg, result>>
    /\ \E i \in DOMAIN inflight :
        /\ inflight[i].stage # "sent"
        /\ inflight' = RemoveAt(inflight, i)
    /\ calls' = << >>
    /\ notices' = << >>
    /\ errorCode' = ""
    /\ prompts' = << >>
    /\ UNCHANGED <<pc, controllerVars, subs, timers, store, nextId, clock, events>>

(***************************************************************************)
(* The utility functions of crud-operations.js applied by a caller: arg    *)
(* is the function and its arguments, result what it returned.             *)
(***************************************************************************)
\* the text of a value that is a non-empty string, the empty text otherwise:
\* validateProductData takes the same branch for a value that is missing,
\* not a string, or blank
TextOf(v) ==
    IF v.t = "string" THEN v.s ELSE << >>

\* the number of a value that is a number, NaN otherwise: validateProductData
\* takes the same branch for a value that is not a number and for NaN
NumberOf(v) ==
    IF v.t = "number" THEN v.n ELSE NaN

\* validateProductData on any value: lines 264-267, then the field checks
ValidateProductDataOf(pd) ==
    IF ~pd.present
    THEN [isValid |-> FALSE, errors |-> <<ErrDataRequired>>]
    ELSE ValidateProductData([name |-> TextOf(pd.name),
                              description |-> TextOf(pd.description),
                              price |-> NumberOf(pd.price),
                              category |-> TextOf(pd.category)])

\* names around the limits of the name rule, with and without blanks
NameValues ==
    {Undefined, Num(5), Str(<< >>), Str(<<" ">>), Str(<<"a">>), Str(<<" ", "a", " ">>),
     Str(Rep("a", NAME_MIN)), Str(<<" ">> \o Rep("a", NAME_MAX) \o <<" ">>),
     Str(Rep("a", NAME_MAX + 1))}

\* descriptions around the limits of the description rule
DescriptionValues ==
    {Undefined, Str(<< >>), Str(Rep("e", DESCRIPTION_MIN - 1)),
     Str(Rep("e", DESCRIPTION_MIN)), Str(Rep("e", DESCRIPTION_MAX)),
     Str(Rep("e", DESCRIPTION_MAX + 1))}

\* prices around the limits of the price rule, in cents
PriceValues ==
    {Undefined, Str(<<"5">>), Num(NaN), Num(-1), Num(0), Num(PRICE_MAX_CENTS),
     Num(PRICE_MAX_CENTS + 1)}

CategoryValues ==
    {Undefined, Num(5), Str(<< >>), Str(<<" ">>), Str(<<"x">>)}

\* the records validateProductData is applied to
ValidateArgs ==
    {[fn |-> "validate", data |-> AbsentInput]}
    \cup {[fn |-> "validate",
           data |-> [present |-> TRUE, name |-> n, description |-> d,
                     price |-> p, category |-> c]] :
            n \in NameValues, d \in DescriptionValues, p \in PriceValues,
            c \in CategoryValues}

\* the caller applies validateProductData
ValidateProductDataCall ==
    /\ arg.fn = "validate"
    /\ result = << >>
    /\ result' = <<ValidateProductDataOf(arg.data)>>
    /\ UNCHANGED <<arg, pc, controllerVars, subs, timers, store, nextId, clock,
                   inflight, notices, calls, prompts, errorCode, events>>


\* getProductStats on any value: lines 413-420, then the computation
GetProductStatsOf(v) ==
    IF ~v.isArray
    THEN [total |-> 0, averagePrice |-> [num |-> 0, den |-> 1],
          categories |-> << >>, totalValue |-> 0]
    ELSE GetProductStats(v.products)

\* the lists of at most n elements of S
ListsUpTo(S, n) ==
    UNION {[1..k -> S] : k \in 0..n}

\* a product of the given price and category
StatsProduct(price, category) ==
    [id |-> 1, name |-> <<"A", "B">>, description |-> Rep("e", DESCRIPTION_MIN),
     price |-> price, category |-> category]

\* products priced 10, 20 and 30 in categories A and B and in a category
\* whose name is a property every object inherits
StatsProducts ==
    {StatsProduct(p, c) :
        p \in {1000, 2000, 3000},
        c \in {<<"A">>, <<"B">>, <<"c", "o", "n", "s", "t", "r", "u", "c", "t", "o", "r">>}}

\* what getProductStats is applied to: a value that is no array, and lists
StatsArgs ==
    {[fn |-> "stats", isArray |-> FALSE, products |-> << >>]}
    \cup {[fn |-> "stats", isArray |-> TRUE, products |-> l] :
            l \in ListsUpTo(StatsProducts, MaxProducts)}

\* the caller applies getProductStats
GetProductStatsCall ==
    /\ arg.fn = "stats"
    /\ result = << >>
    /\ result' = <<GetProductStatsOf(arg)>>
    /\ UNCHANGED <<arg, pc, controllerVars, subs, timers, store, nextId, clock,
                   inflight, notices, calls, prompts, errorCode, events>>

\* a search that compares the texts as they are written
SearchProductsCaseSensitive(searchText, products) ==
    IF searchText.t # "string" \/ searchText.s = << >> THEN products
    ELSE LET searchLower == Trim(searchText.s)
             Matches(product) ==
                \/ Includes(product.name, searchLower)
                \/ Includes(product.description, searchLower)
                \/ Includes(product.category, searchLower)
         IN  SelectSeq(products, Matches)

\* searchProducts: the list itself for a text that is missing, no string or
\* empty; else the products one of whose three texts, in lower case,
\* includes the text in lower case and trimmed
SearchProducts(searchText, products) ==
    IF searchText.t # "string" \/ searchText.s = << >> THEN products
    ELSE LET searchLower == Trim(ToLowerCase(searchText.s))
             Matches(product) ==
                \/ Includes(ToLowerCase(product.name), searchLower)
                \/ Includes(ToLowerCase(product.description), searchLower)
                \/ Includes(ToLowerCase(product.category), searchLower)
         IN  SelectSeq(products, Matches)

\* products that match by name, by description (which holds a blank) and by
\* category
SearchedProducts ==
    {[id |-> 1, name |-> <<"A", "b">>, description |-> <<"x", "x">>,
      price |-> 1000, category |-> <<"y">>],
     [id |-> 2, name |-> <<"c", "d">>, description |-> <<"A", " ", "b">>,
      price |-> 2000, category |-> <<"y">>],
     [id |-> 3, name |-> <<"c", "d">>, description |-> <<"x", "x">>,
      price |-> 3000, category |-> <<"a", "B">>]}

\* no text, the empty text, texts in either case, texts with a blank before
\* or after, a blank, and a text no product holds
SearchTexts ==
    {Undefined, Str(<< >>), Str(<<"a">>), Str(<<"A", "B">>), Str(<<" ", "b">>),
     Str(<<"b", " ">>), Str(<<" ">>), Str(<<"e", "e">>)}

SearchArgs ==
    {[fn |-> "search", searchText |-> t, products |-> l] :
        t \in SearchTexts, l \in ListsUpTo(SearchedProducts, MaxProducts)}

\* the caller applies searchProducts
SearchProductsCall ==
    /\ arg.fn = "search"
    /\ result = << >>
    /\ result' = <<SearchProducts(arg.searchText, arg.products)>>
    /\ UNCHANGED <<arg, pc, controllerVars, subs, timers, store, nextId, clock,
                   inflight, notices, calls, prompts, errorCode, events>>

\* formatPrice on any value: "$0.00" for a value that is no number or is NaN
FormatPriceOf(v) ==
    FormatPrice(NumberOf(v))

\* no value, a string, NaN, and amounts in cents: the small ones, amounts
\* around each thousands separator, and negative ones
FormatArgs ==
    {[fn |-> "format", price |-> v] :
        v \in {Undefined, Str(<<"5">>), Num(NaN)}
              \cup {Num(n) : n \in 0..MaxCents}
              \cup {Num(n) : n \in {99999, 100000, 123450, PRICE_MAX_CENTS,
                                    PRICE_MAX_CENTS + 1, 123456789, -1, -123450}}}

\* the caller applies formatPrice
FormatPriceCall ==
    /\ arg.fn = "format"
    /\ result = << >>
    /\ result' = <<FormatPriceOf(arg.price)>>
    /\ UNCHANGED <<arg, pc, controllerVars, subs, timers, store, nextId, clock,
                   inflight, notices, calls, prompts, errorCode, events>>
Next ==
    \/ DOMContentLoaded
    \/ SnapshotPush
    \/ SnapshotError
    \/ Tick
    \/ ReconnectTimerFire
    \/ BeforeUnload
    \/ FillForm
    \/ BlurField
    \/ HandleFormSubmit
    \/ HandleCancelEdit
    \/ ClickEdit
    \/ ClickDelete
    \/ StoreApply
    \/ StoreReject
    \/ WriteSettled

Spec ==
    Init /\ [][Next]_vars

\* the first call of the subscription callback, while the page is loading
InitialCallback ==
    /\ ~hidden.loading
    /\ SnapshotPush \/ SnapshotError

\* the page session in which the subscription delivers its initial callback:
\* a subscription that stays able to deliver it eventually does
DeliverySpec ==
    Spec /\ WF_vars(InitialCallback)

AdapterNext ==
    \/ CreateProductCall
    \/ UpdateProductCall
    \/ DeleteProductCall
    \/ StoreApply
    \/ StoreReject
    \/ PromiseSettled

AdapterSpec ==
    Init /\ [][AdapterNext]_vars

UtilArgs ==
    ValidateArgs \cup StatsArgs \cup SearchArgs \cup FormatArgs

UtilInit ==
    /\ PageInit
    /\ arg \in UtilArgs
    /\ result = << >>

UtilNext ==
    \/ ValidateProductDataCall
    \/ GetProductStatsCall
    \/ SearchProductsCall
    \/ FormatPriceCall

UtilSpec ==
    UtilInit /\ [][UtilNext]_vars

(***************************************************************************)
(* Properties.                                                             *)
(***************************************************************************)
\* the step is the continuation of a write of kind op that ended in stage
SettledWrite(op, stage) ==
    /\ \E i \in DOMAIN inflight :
        /\ inflight[i].op = op
        /\ inflight[i].stage = stage
        /\ inflight' = RemoveAt(inflight, i)
    /\ WriteSettled

\* the records of the collection are the records of the list, one each
SameRecords(products, docs) ==
    /\ Len(products) = Cardinality(docs)
    /\ {products[i] : i \in 1..Len(products)} = docs

\* the list is in descending order of creation time
SortedByCreatedAtDesc(products) ==
    \A i, j \in 1..Len(products) :
        i < j => products[i].createdAt >= products[j].createdAt

\* the view states of the product list
ViewPopulated ==
    [loading |-> TRUE, emptyState |-> TRUE, productsContainer |-> FALSE]

ViewEmpty ==
    [loading |-> TRUE, emptyState |-> FALSE, productsContainer |-> TRUE]

\* C1: a form submission whose data validateProductData rejects calls neither
\* create nor update, starts no write and leaves the mode (isEditing and
\* currentEditId) as it was; every create or update call the controller makes
\* carries data that validateProductData accepts.
C1_InvalidSubmitCallsNothing ==
    [][/\ (HandleFormSubmit /\ ~ValidateProductData(GetFormData(form)).isValid)
            => /\ calls' = << >>
               /\ inflight' = inflight
               /\ isEditing' = isEditing
               /\ currentEditId' = currentEditId
       /\ \A i \in DOMAIN calls' :
            calls'[i].op \in {"create", "update"}
                => ValidateProductData(calls'[i].data).isValid]_vars

\* an invalid form has just been submitted in editing mode: the fields are
\* annotated, nothing was called, the controller still edits the same record
C1_Witness ==
    /\ notices = <<Toast("Por favor corrige los errores en el formulario", "error")>>
    /\ ~ValidateProductData(GetFormData(form)).isValid
    /\ fieldErrors # NoFieldErrors
    /\ calls = << >>
    /\ inflight = << >>
    /\ isEditing
    /\ currentEditId = EarlierProduct.id

\* C2: a valid submission in creating mode calls create once and not update,
\* and when the create succeeds the form is reset and the controller is in
\* creating mode; a valid submission in editing mode calls update once with
\* the id being edited and not create, and when the update succeeds the
\* controller is in creating mode.
C2_SubmitCallsTheModeOperation ==
    [][/\ (HandleFormSubmit /\ ValidateProductData(GetFormData(form)).isValid)
            => calls' = <<[op |-> IF isEditing THEN "update" ELSE "create",
                           id |-> IF isEditing THEN currentEditId ELSE NULL,
                           data |-> GetFormData(form)]>>
       /\ (isEditing /\ HandleFormSubmit) => currentEditId # NULL
       /\ SettledWrite("create", "ok")
            => /\ form' = EmptyForm
               /\ fieldErrors' = NoFieldErrors
               /\ ~isEditing'
               /\ currentEditId' = NULL
       /\ SettledWrite("update", "ok")
            => /\ ~isEditing'
               /\ currentEditId' = NULL]_vars

\* an update submitted in editing mode has succeeded and the controller is
\* back in creating mode
C2_Witness ==
    /\ notices = <<Toast("Producto actualizado exitosamente", "success")>>
    /\ ~isEditing
    /\ currentEditId = NULL
    /\ \E d \in store : d.updatedAt > d.createdAt

\* C3: the mirror allProducts changes only in a subscription callback that
\* delivers a snapshot, and it then holds exactly the delivered list; every
\* other step leaves it as it was, and a delete that succeeded does not take
\* its record out of the mirror.
C3_MirrorSingleWriter ==
    [][/\ allProducts' # allProducts => SnapshotPush
       /\ \/ /\ SameRecords(allProducts', store)
             /\ SortedByCreatedAtDesc(allProducts')
          \/ ~SnapshotPush
       /\ \/ allProducts' = allProducts
          \/ ~(\/ DOMContentLoaded \/ SnapshotError \/ Tick \/ ReconnectTimerFire
               \/ FillForm \/ HandleFormSubmit \/ HandleCancelEdit \/ ClickEdit
               \/ ClickDelete \/ StoreApply \/ StoreReject \/ WriteSettled)]_vars

\* a delete has succeeded and its record is still in the mirror
C3_Witness ==
    /\ notices = <<Toast("Producto eliminado exitosamente", "success")>>
    /\ store = {}
    /\ allProducts # << >>

\* C4 as stated: once three unavailable failures have been handled and the
\* three reconnection attempts they scheduled have run, the terminal failure
\* notice has been shown.
C4_NoticeAfterThreeFailures ==
    (reconnectAttempts = MAX_RECONNECT_ATTEMPTS /\ timers = << >>)
        => giveUpNotices >= 1

\* C4: each unavailable failure up to the third schedules one reconnection
\* attempt, and an attempt re-opens the subscription only when its 2-second
\* delay has passed; the terminal failure notice is shown when a fourth
\* unavailable failure arrives, and only then; nothing is scheduled or
\* re-opened afterwards.
C4_ReconnectBound ==
    /\ [](/\ reconnectAttempts <= MAX_RECONNECT_ATTEMPTS
          /\ Len(subs) + Len(timers) <= 1 + reconnectAttempts
          /\ giveUpNotices >= 1
                => /\ reconnectAttempts = MAX_RECONNECT_ATTEMPTS
                   /\ Len(subs) = 1 + MAX_RECONNECT_ATTEMPTS
                   /\ timers = << >>
                   /\ \A s \in DOMAIN subs : ~subs[s].live)
    /\ [][/\ Len(timers') > Len(timers)
               => /\ SnapshotError
                  /\ reconnectAttempts < MAX_RECONNECT_ATTEMPTS
                  /\ reconnectAttempts' = reconnectAttempts + 1
                  /\ timers' = Append(timers, 0)
          /\ (Len(subs') > Len(subs) /\ pc = "running")
               => /\ timers # << >>
                  /\ Head(timers) >= RECONNECT_DELAY_MS
                  /\ timers' = Tail(timers)
          /\ giveUpNotices' # giveUpNotices
               => /\ SnapshotError
                  /\ reconnectAttempts = MAX_RECONNECT_ATTEMPTS
                  /\ giveUpNotices' = giveUpNotices + 1
                  /\ UNCHANGED <<reconnectAttempts, timers>>
          /\ (SnapshotError /\ reconnectAttempts = MAX_RECONNECT_ATTEMPTS
                /\ Len(notices') = 2)
               => giveUpNotices' = giveUpNotices + 1]_vars

\* the fourth unavailable failure has arrived after three reconnections: the
\* terminal notice is shown
C4_Witness ==
    /\ giveUpNotices = 1
    /\ reconnectAttempts = MAX_RECONNECT_ATTEMPTS
    /\ Len(subs) = 1 + MAX_RECONNECT_ATTEMPTS
    /\ notices = <<Toast("Firestore no disponible: Verifica tu conexión", "error"),
                   Toast("No se pudo conectar después de varios intentos", "error")>>

\* C5: the subscriptions re-opened by attemptReconnect in a session are at
\* most MAX_RECONNECT_ATTEMPTS; the attempt counter never decreases, a
\* delivered snapshot does not reset it, and once it has reached the limit
\* and the last attempt has run no step opens another subscription.
C5_ReconnectTotalBounded ==
    /\ [](/\ reconnectAttempts <= MAX_RECONNECT_ATTEMPTS
          /\ Len(subs) <= 1 + MAX_RECONNECT_ATTEMPTS
          /\ Len(subs) + Len(timers) <= 1 + reconnectAttempts)
    /\ [][/\ reconnectAttempts' >= reconnectAttempts
          /\ SnapshotPush => reconnectAttempts' = reconnectAttempts
          /\ (reconnectAttempts = MAX_RECONNECT_ATTEMPTS /\ timers = << >>)
               => \/ subs' = subs
                  \/ SnapshotError /\ Len(subs') = Len(subs) /\ timers' = << >>
                  \/ BeforeUnload /\ Len(subs') = Len(subs) /\ timers' = << >>]_vars

\* the limit is exhausted, the last re-opened subscription has delivered a
\* snapshot and then failed as unavailable: nothing is pending
C5_Witness ==
    /\ reconnectAttempts = MAX_RECONNECT_ATTEMPTS
    /\ Len(subs) = 1 + MAX_RECONNECT_ATTEMPTS
    /\ timers = << >>
    /\ giveUpNotices = 1
    /\ allProducts # << >>

\* C6: at most one subscription has not been cancelled, and it is the one
\* unsubscribeProducts holds; a subscription is opened at page start, when
\* there is none, or by a reconnection timer that has first cancelled the
\* one before it.
C6_OneSubscription ==
    /\ [](/\ Cardinality({s \in DOMAIN subs : ~subs[s].cancelled}) <= 1
          /\ Cardinality({s \in DOMAIN subs : subs[s].live}) <= 1
          /\ \A s \in DOMAIN subs :
                (~subs[s].cancelled \/ subs[s].live) => s = unsubscribeProducts)
    /\ [][Len(subs') > Len(subs)
            => /\ Len(subs') = Len(subs) + 1
               /\ \/ pc = "boot" /\ subs = << >>
                  \/ /\ ReconnectTimerFire
                     /\ \A s \in DOMAIN subs :
                            subs'[s].cancelled /\ ~subs'[s].live]_vars

\* a reconnection has replaced a subscription: the old one is cancelled and
\* the new one is live
C6_Witness ==
    /\ Len(subs) >= 2
    /\ subs[Len(subs)].live
    /\ subs[Len(subs) - 1].cancelled
    /\ unsubscribeProducts = Len(subs)

\* C7: a callback that delivers a non-empty list leaves the table shown and
\* the empty-state panel hidden; one that delivers an empty list, or an error
\* of any class, leaves the empty-state panel shown and the table hidden; the
\* loading indicator is hidden after each of them.
C7_ViewStateTransitions ==
    [][/\ (SnapshotPush /\ store # {}) => hidden' = ViewPopulated
       /\ (SnapshotPush /\ store = {}) => hidden' = ViewEmpty
       /\ SnapshotError => hidden' = ViewEmpty]_vars

\* a subscription error of the plain class has arrived while the table was
\* shown: the view is the empty state
C7_Witness ==
    /\ hidden = ViewEmpty
    /\ tbodyRows # << >>
    /\ allProducts # << >>
    /\ notices = <<Toast("Error al cargar productos: ", "error")>>

\* C8 as stated: after a callback that delivers a list, the rows of the
\* table body are the rows of that list, in its order, and the statistics
\* panel, when there is one, is the panel of that list (a list with no
\* record may leave the page without a panel).
C8_RenderReplacesTableAndStats ==
    [][SnapshotPush
        => /\ tbodyRows' = [i \in 1..Len(allProducts') |->
                               CreateProductRow(allProducts'[i])]
           /\ \/ statsPanel' = <<StatsPanelOf(allProducts')>>
              \/ allProducts' = << >> /\ statsPanel' = << >>]_vars

\* what a callback renders: the containers, the rows, the statistics panel
\* and the click listeners of the table body
Rendered ==
    <<hidden, tbodyRows, statsPanel, tbodyListeners>>

\* C9 as stated: a callback that delivers the list the callback before it
\* delivered (the mirror holds it, the containers are as that callback left
\* them) leaves what is rendered as it was.
C9_SamePushSameRendering ==
    [][(/\ SnapshotPush
        /\ allProducts' = allProducts
        /\ hidden.loading
        /\ hidden = HiddenAfterRender(hidden, allProducts))
            => Rendered' = Rendered]_vars

\* C10 as stated: the first snapshot delivered after a create has succeeded
\* has the created record at its head.
C10_CreatedRecordHeadsNextPush ==
    [][(SnapshotPush /\ createdUnpushed # NULL)
        => /\ allProducts' # << >>
           /\ Head(allProducts').id = createdUnpushed]_vars

\* C10: every snapshot delivered holds exactly the records of the collection,
\* most recently created first; the snapshots delivered while the record of
\* the latest create is in the collection have it at their head.
C10_SnapshotsSortedNewestFirst ==
    [][SnapshotPush
        => /\ SameRecords(allProducts', store)
           /\ \A i, j \in 1..Len(allProducts') :
                i < j => allProducts'[i].createdAt > allProducts'[j].createdAt
           /\ (nextId - 1) \in StoreIds
                => Head(allProducts').id = nextId - 1]_vars

\* a snapshot of two records has been delivered, the second created at its head
C10_Witness ==
    /\ Len(allProducts) = 2
    /\ allProducts[1].id = 2
    /\ allProducts[2].id = 1
    /\ SameRecords(allProducts, store)

\* the step is the store applying the update w that was in flight
UpdateApplied(w) ==
    /\ \E i \in DOMAIN inflight :
        /\ inflight[i] = w
        /\ w.op = "update"
        /\ w.stage = "sent"
        /\ i \in DOMAIN inflight'
        /\ inflight'[i].stage = "ok"
    /\ StoreApply

\* C11: an update that the store applies replaces name, description, price
\* and category of the record with the submitted values, trimmed, and gives
\* it a later updatedAt; the id and createdAt of that record and all the
\* other records stay as they were; no step changes the createdAt of a
\* record that stays in the collection.
C11_UpdateReplacesFieldsOnly ==
    [][/\ (Len(inflight') > Len(inflight) /\ HandleFormSubmit)
            => LET w == inflight'[Len(inflight')]
                   c == calls'[1]
               IN  /\ w.id = c.id
                   /\ w.data.name = Trim(c.data.name)
                   /\ w.data.description = Trim(c.data.description)
                   /\ w.data.price = c.data.price
                   /\ w.data.category = Trim(c.data.category)
       /\ \A i \in DOMAIN inflight :
            UpdateApplied(inflight[i])
                => \E d \in store, e \in store' :
                        /\ d.id = inflight[i].id
                        /\ e = [id |-> d.id,
                                name |-> inflight[i].data.name,
                                description |-> inflight[i].data.description,
                                price |-> inflight[i].data.price,
                                category |-> inflight[i].data.category,
                                createdAt |-> d.createdAt,
                                updatedAt |-> e.updatedAt]
                        /\ e.updatedAt > d.updatedAt
                        /\ store' \ {e} = store \ {d}
       /\ \A d \in store, e \in store' :
            e.id = d.id => e.createdAt = d.createdAt]_vars

\* the earlier product has been updated with a name typed with a leading
\* blank: the name is stored trimmed, id and createdAt are those of creation
C11_Witness ==
    \E d \in store :
        /\ d.id = EarlierProduct.id
        /\ d.createdAt = EarlierProduct.createdAt
        /\ d.updatedAt > EarlierProduct.updatedAt
        /\ d.name = <<"A", "B">>
        /\ Cardinality(store) = 1

\* identifiers that were assigned and whose record has been removed
RemovedIds ==
    (1..(nextId - 1)) \ StoreIds

\* C12: an identifier whose record has been removed never resolves again:
\* the removed identifiers only grow, a delete that the store applies puts
\* its identifier among them, a create takes an identifier never assigned
\* before, no push delivers a removed identifier, and an update of an
\* identifier that does not resolve fails and leaves the collection as it is.
C12_RemovedIdNeverReturns ==
    [][/\ RemovedIds \subseteq RemovedIds'
       /\ StoreIds' \ StoreIds \subseteq {nextId}
       /\ nextId \notin StoreIds
       /\ \A i \in DOMAIN inflight :
            (StoreApply /\ inflight[i].stage = "sent" /\ inflight'[i].stage # "sent")
                => /\ inflight[i].op = "delete"
                        => /\ inflight'[i].stage = "ok"
                           /\ inflight[i].id \notin StoreIds'
                   /\ (inflight[i].op = "update" /\ inflight[i].id \notin StoreIds)
                        => /\ inflight'[i].stage = "err"
                           /\ store' = store
       /\ SnapshotPush
            => \A k \in DOMAIN allProducts' : allProducts'[k].id \notin RemovedIds]_vars

\* the product was deleted while it was being edited, and the update then
\* submitted from that edit mode has failed in the store
C12_Witness ==
    /\ EarlierProduct.id \in RemovedIds
    /\ store = {}
    /\ \E i \in DOMAIN inflight :
        /\ inflight[i].op = "update"
        /\ inflight[i].id = EarlierProduct.id
        /\ inflight[i].stage = "err"
        /\ inflight[i].code = "not-found"

\* the four form fields show the record: the texts as stored, the price as
\* the text of the number, which reads back as the number
FormShows(f, product) ==
    /\ f.name = product.name
    /\ f.description = product.description
    /\ f.category = product.category
    /\ f.price = NumberToString(product.price)
    /\ ParseFloat(f.price) = product.price

\* C13: a click on the edit button of a row whose id is in the mirror ends
\* in editing mode for that id with the form showing the mirror's record,
\* whatever the mode was before; a click for an id that is not in the mirror
\* leaves mode and form alone; neither makes a remote call nor touches the
\* mirror or the collection.
C13_EditSelectionLoadsRecord ==
    [][ClickEdit
        => /\ \E id \in RowIds :
                IF InMirror(id)
                THEN /\ isEditing'
                     /\ currentEditId' = id
                     /\ FormShows(form', MirrorRecord(id))
                ELSE UNCHANGED <<form, isEditing, currentEditId>>
           /\ calls' = << >>
           /\ UNCHANGED <<inflight, store, allProducts>>]_vars

\* editing the newer of two records of the mirror, the form showing it
C13_Witness ==
    /\ Len(allProducts) = 2
    /\ isEditing
    /\ currentEditId = allProducts[1].id
    /\ currentEditId # EarlierProduct.id
    /\ FormShows(form, allProducts[1])
    /\ calls = << >>

\* C14: cancelling an edit leaves editing mode for creating mode with the
\* four inputs empty and no field annotation, calls no adapter operation and
\* leaves the mirror, the subscription, the writes in flight and the
\* collection as they were.
C14_CancelEditResets ==
    [][HandleCancelEdit
        => /\ isEditing
           /\ currentEditId # NULL
           /\ ~isEditing'
           /\ currentEditId' = NULL
           /\ form' = EmptyForm
           /\ \A f \in Fields : fieldErrors'[f] = << >>
           /\ calls' = << >>
           /\ UNCHANGED <<allProducts, unsubscribeProducts, subs, timers,
                          inflight, store>>]_vars

\* an edit has just been cancelled as the last permitted event: creating mode,
\* empty form, no annotation, mirror still holding the record
C14_Witness ==
    /\ notices = <<Toast("Edición cancelada", "info")>>
    /\ events = MaxEvents
    /\ ~isEditing
    /\ form = EmptyForm
    /\ fieldErrors = NoFieldErrors
    /\ Len(allProducts) = 1

\* the delete calls among the adapter calls of a step
DeleteCalls(cs) ==
    SelectSeq(cs, LAMBDA c : c.op = "delete")

\* C15: deleteProduct is called only in a step that is a click on the delete
\* button of a row whose id is in the mirror, once for each confirmation
\* prompt the user accepted and for that id; a delete write enters the
\* store's queue only in such a step; a click that is declined, or whose id
\* is not in the mirror, makes no call; a click on delete never changes the
\* mode, the form, the mirror or the collection.
C15_RemoveOnlyAfterConfirmation ==
    [][/\ DeleteCalls(calls') # << >>
            => /\ ClickDelete
               /\ calls' = DeleteCalls(calls')
               /\ Len(calls') = Len(SelectSeq(prompts', LAMBDA a : a))
               /\ \A k \in DOMAIN calls' :
                    /\ calls'[k].id \in RowIds
                    /\ InMirror(calls'[k].id)
       /\ (Len(inflight') > Len(inflight) /\ inflight'[Len(inflight')].op = "delete")
            => ClickDelete /\ Len(inflight') - Len(inflight) = Len(calls')
       /\ ClickDelete
            => /\ UNCHANGED <<isEditing, currentEditId, form, allProducts, store>>
               /\ (\A k \in DOMAIN prompts' : ~prompts'[k])
                    => calls' = << >> /\ inflight' = inflight]_vars

\* the click ran the handler twice: the first prompt was declined, the second
\* accepted, and one delete of a record of the mirror is on its way
C15_Witness ==
    /\ prompts = <<FALSE, TRUE>>
    /\ Len(calls) = 1
    /\ calls[1].op = "delete"
    /\ InMirror(calls[1].id)
    /\ \E i \in DOMAIN inflight : inflight[i].op = "delete" /\ inflight[i].stage = "sent"

\* C16: the error callback dispatches on the error code: permission-denied
\* adds the remediation panel and schedules no reconnect; unavailable
\* schedules one reconnect while attempts remain, none afterwards, and adds
\* no panel; any other code does neither; every error shows a notice and
\* none changes the mirror.
C16_ErrorsDispatchedByClass ==
    [][SnapshotError
        => /\ errorCode' \in ErrorCodes
           /\ Len(notices') >= 1
           /\ \A k \in DOMAIN notices' : notices'[k].type \in {"error", "warning"}
           /\ allProducts' = allProducts
           /\ errorCode' = "permission-denied"
                => /\ permissionPanels' = permissionPanels + 1
                   /\ UNCHANGED <<timers, reconnectAttempts>>
           /\ errorCode' = "unavailable"
                => /\ permissionPanels' = permissionPanels
                   /\ reconnectAttempts < MAX_RECONNECT_ATTEMPTS
                        => /\ Len(timers') = Len(timers) + 1
                           /\ reconnectAttempts' = reconnectAttempts + 1
                   /\ reconnectAttempts >= MAX_RECONNECT_ATTEMPTS
                        => UNCHANGED <<timers, reconnectAttempts>>
           /\ errorCode' \notin {"permission-denied", "unavailable"}
                => /\ Len(notices') = 1
                   /\ UNCHANGED <<permissionPanels, timers, reconnectAttempts>>]_vars

\* a permission error has arrived on a subscription opened by a reconnect:
\* the panel is in the page, no timer is pending, the mirror is as it was
C16_Witness ==
    /\ errorCode = "permission-denied"
    /\ permissionPanels = 1
    /\ reconnectAttempts = 1
    /\ timers = << >>
    /\ Len(allProducts) = 1

\* C17: at every moment of the session the page holds at most one
\* remediation panel.
C17_AtMostOnePermissionPanel ==
    permissionPanels <= 1

\* the panel is in the page after three connection failures, the reconnects
\* they scheduled, and a permission error on the last subscription
C17_Witness ==
    /\ permissionPanels = 1
    /\ reconnectAttempts = MAX_RECONNECT_ATTEMPTS
    /\ Len(subs) = MAX_RECONNECT_ATTEMPTS + 1
    /\ \A s \in DOMAIN subs : ~subs[s].live

\* C18: the continuation of a create, update or delete that failed in the
\* store shows one error notice, calls no adapter operation, puts no write
\* in the store's queue, and leaves the mode, the form, the mirror and the
\* collection as they were.
C18_WriteFailureOnlyNotifies ==
    [][\A op \in {"create", "update", "delete"} :
        SettledWrite(op, "err")
            => /\ Len(notices') = 1
               /\ notices'[1].type = "error"
               /\ calls' = << >>
               /\ Len(inflight') = Len(inflight) - 1
               /\ UNCHANGED <<isEditing, currentEditId, form, allProducts, store>>]_vars

\* a write submitted from the form has failed in the store and its failure
\* has been handled: the notice is shown and the controller is still editing
\* with the form filled
C18_Witness ==
    /\ notices = <<Toast("Error: ", "error")>>
    /\ calls = << >>
    /\ inflight = << >>
    /\ isEditing
    /\ currentEditId = EarlierProduct.id
    /\ form # EmptyForm
    /\ ~submitDisabled

\* a text field that is absent, not a string, or empty after trimming
MalformedText(v) ==
    v.t # "string" \/ Trim(v.s) = << >>

\* a price that is not a valid number (NaN included) or is negative
MalformedPrice(v) ==
    v.t # "number" \/ IsNaN(v.n) \/ v.n < 0

\* the input of an adapter call has a missing or malformed required field
MalformedCall(c) ==
    \/ c.op \in {"update", "delete"} /\ c.id.t # "string"
    \/ c.op \in {"create", "update"}
        /\ \/ ~c.data.present
           \/ MalformedText(c.data.name)
           \/ MalformedText(c.data.description)
           \/ MalformedPrice(c.data.price)
           \/ MalformedText(c.data.category)

\* the step is a direct call of an adapter operation
AdapterCalled ==
    CreateProductCall \/ UpdateProductCall \/ DeleteProductCall

\* C19: an adapter call whose input has a missing or malformed required
\* field fails with a validation error and hands no write to the store; the
\* collection is unchanged by the call and no write of malformed data is
\* ever applied to it.
C19_AdapterRejectsMalformedInput ==
    [][/\ (AdapterCalled /\ MalformedCall(calls'[1]))
            => /\ inflight'[Len(inflight')].stage = "err"
               /\ inflight'[Len(inflight')].code = "validation"
               /\ store' = store
       /\ \A d \in store' : ~IsNaN(d.price) /\ d.price >= 0]_vars

\* the step is a start of the listener in which getAllProducts threw: the
\* live query was not established and no subscription was opened
EstablishFailed ==
    /\ DOMContentLoaded \/ ReconnectTimerFire
    /\ Len(subs') = Len(subs)

\* the empty view, with the loading indicator hidden
EmptyViewShown(h) ==
    h.loading /\ ~h.emptyState /\ h.productsContainer

\* C20 as stated: every failure of the live query, at establishment or
\* after it, reaches the controller as an error passed to the callback, and
\* the controller ends in the empty view with the loading indicator hidden.
C20_EveryFailureThroughCallback ==
    [][(EstablishFailed \/ SnapshotError)
        => /\ errorCode' \in ErrorCodes
           /\ EmptyViewShown(hidden')]_vars

\* C20: an error of an established live query reaches the controller as an
\* error passed to the callback; a failure to establish the query is thrown
\* by getAllProducts to its caller, the callback is not invoked and the
\* controller shows the connection notice; in both cases the controller
\* ends in the empty view with the loading indicator hidden and the mirror
\* as it was.
C20_FailuresEndInEmptyView ==
    [][/\ SnapshotError
            => /\ errorCode' \in ErrorCodes
               /\ EmptyViewShown(hidden')
               /\ allProducts' = allProducts
       /\ EstablishFailed
            => /\ errorCode' = ""
               /\ notices' = <<Toast("Error al conectar con la base de datos", "error")>>
               /\ EmptyViewShown(hidden')
               /\ allProducts' = allProducts]_vars

\* a reconnect has failed to establish the live query while the table was
\* shown: the connection notice, the empty view, no live subscription
C20_Witness ==
    /\ notices = <<Toast("Error al conectar con la base de datos", "error")>>
    /\ errorCode = ""
    /\ reconnectAttempts = 1
    /\ EmptyViewShown(hidden)
    /\ Len(allProducts) = 1
    /\ \A s \in DOMAIN subs : ~subs[s].live

\* the step is a form submission whose adapter call was refused by the
\* adapter's own checks
SubmitRefusedByAdapter ==
    calls' # << >> /\ inflight' = inflight /\ HandleFormSubmit

\* a failure is raised in the step: a write that failed is continued, the
\* adapter refuses a call, the listener cannot be started, or the
\* subscription reports an error
FailureRaised ==
    \/ \E op \in {"create", "update", "delete"} : SettledWrite(op, "err")
    \/ SubmitRefusedByAdapter
    \/ EstablishFailed
    \/ SnapshotError

\* C21: every step in which a failure is raised while the controller
\* handles a form submission, a delete or a subscription callback is
\* completed by the handler's own catch or error branch: an error notice is
\* shown, and the submit button is enabled again after a form failure.
C21_FailuresBecomeNotices ==
    [][/\ \/ /\ notices' # << >>
             /\ notices'[1].type = "error"
          \/ ~FailureRaised
       /\ \/ ~submitDisabled'
          \/ ~(SubmitRefusedByAdapter \/ SettledWrite("create", "err")
                 \/ SettledWrite("update", "err"))]_vars

\* the delete of a record failed in the store and the handler has shown it
C21_Witness ==
    /\ notices = <<Toast("Error al eliminar: ", "error")>>
    /\ inflight = << >>
    /\ Len(allProducts) = 1
    /\ store # {}

\* the problem list holds a problem that names the field
HasMarker(errors, marker) ==
    \E k \in DOMAIN errors : Includes(ToLowerCase(errors[k]), marker)

\* the rules of the four fields
NameRuleHolds(v) ==
    v.t = "string" /\ Len(Trim(v.s)) >= 2 /\ Len(Trim(v.s)) <= 100

DescriptionRuleHolds(v) ==
    v.t = "string" /\ Len(Trim(v.s)) >= 10 /\ Len(Trim(v.s)) <= 500

PriceRuleHolds(v) ==
    v.t = "number" /\ ~IsNaN(v.n) /\ v.n >= 0 /\ v.n <= 99999999

CategoryRuleHolds(v) ==
    v.t = "string" /\ Len(Trim(v.s)) >= 1

\* a 2-character name, a 10-character description, price 0, a 1-character
\* category
MinimalRecord ==
    [present |-> TRUE, name |-> Str(<<"a", "a">>), description |-> Str(Rep("e", 10)),
     price |-> Num(0), category |-> Str(<<"x">>)]

\* C22: validateProductData returns a result for every record; isValid is
\* TRUE exactly when the problem list is empty; for each of the four fields
\* the list holds a problem with the field's marker exactly when the field
\* breaks its rule, whatever the other fields do; a missing record is not
\* valid and the minimal record is; applying the function changes nothing
\* but its result.
C22_ValidateReportsEveryViolation ==
    /\ [](arg.fn = "validate" /\ result # << >>
            => LET r == result[1]
                   pd == arg.data
               IN  /\ r.isValid <=> r.errors = << >>
                   /\ ~pd.present => ~r.isValid
                   /\ pd.present =>
                        /\ HasMarker(r.errors, MarkerNombre) <=> ~NameRuleHolds(pd.name)
                        /\ HasMarker(r.errors, MarkerDescripcion)
                                <=> ~DescriptionRuleHolds(pd.description)
                        /\ HasMarker(r.errors, MarkerPrecio) <=> ~PriceRuleHolds(pd.price)
                        /\ HasMarker(r.errors, MarkerCategoria)
                                <=> ~CategoryRuleHolds(pd.category)
                   /\ pd = MinimalRecord => r.isValid)
    /\ [][ValidateProductDataCall
            => UNCHANGED <<arg, controllerVars, store, inflight, notices, calls>>]_vars

\* a record that breaks all four rules has been validated: four problems
C22_Witness ==
    /\ arg.fn = "validate"
    /\ result # << >>
    /\ arg.data.present
    /\ ~NameRuleHolds(arg.data.name)
    /\ ~DescriptionRuleHolds(arg.data.description)
    /\ ~PriceRuleHolds(arg.data.price)
    /\ ~CategoryRuleHolds(arg.data.category)
    /\ Len(result[1].errors) = 4

\* the value the form holds for the field breaks the field's rule
FieldViolatesRule(fieldName, f) ==
    LET formData == GetFormData(f)
    IN  IF fieldName = "name" THEN NameErrors(formData.name) # << >>
        ELSE IF fieldName = "description"
             THEN DescriptionErrors(formData.description) # << >>
        ELSE IF fieldName = "price" THEN PriceErrors(formData.price) # << >>
        ELSE CategoryErrors(formData.category) # << >>

\* C23: when the name, description or price input loses focus the field is
\* annotated if its value breaks the field's rule and its annotation is
\* cleared if the value satisfies the rule.
C23_BlurAnnotatesInvalidField ==
    [][\A fieldName \in {"name", "description", "price"} :
        Blur(fieldName)
            => IF FieldViolatesRule(fieldName, form)
               THEN fieldErrors'[fieldName] # << >>
               ELSE fieldErrors'[fieldName] = << >>]_vars

\* the number of products of the list in the category
CountIn(products, category) ==
    Cardinality({i \in 1..Len(products) : products[i].category = category})

RECURSIVE SumOfCounts(_, _)
\* the sum of the counts of the categories of the set
SumOfCounts(categories, S) ==
    IF S = {} THEN 0
    ELSE LET c == CHOOSE x \in S : TRUE
         IN  categories[c] + SumOfCounts(categories, S \ {c})

\* C24: getProductStats returns the number of records, the sum of their
\* prices, their quotient as the average (0 for no record), and a mapping
\* whose keys are the categories that occur, each with its number of
\* records, the counts adding up to the total; a value that is no list
\* gives the same result as the empty list.
C24_StatsCountAndSum ==
    (arg.fn = "stats" /\ result # << >>)
        => LET r == result[1]
               products == IF arg.isArray THEN arg.products ELSE << >>
           IN  /\ r.total = Len(products)
               /\ r.totalValue = SumPrices(products)
               /\ r.averagePrice.num * r.total = r.totalValue * r.averagePrice.den
               /\ Len(products) = 0 => r.averagePrice.num = 0
               /\ DOMAIN r.categories = CategoriesOf(products)
               /\ \A c \in DOMAIN r.categories : r.categories[c] = CountIn(products, c)
               /\ SumOfCounts(r.categories, DOMAIN r.categories) = r.total

\* one of the three texts of the product contains the text, letter case
\* ignored
ContainsIgnoringCase(product, text) ==
    LET lower == ToLowerCase(text)
    IN  \/ Includes(ToLowerCase(product.name), lower)
        \/ Includes(ToLowerCase(product.description), lower)
        \/ Includes(ToLowerCase(product.category), lower)

\* the sub-list, in the original order, of the products that contain the text
Containing(products, text) ==
    SelectSeq(products, LAMBDA product : ContainsIgnoringCase(product, text))

\* C25 as stated: the result for a non-empty search text is the sub-list of
\* the products that contain the search text as it was given.
C25_SearchMatchesGivenText ==
    (arg.fn = "search" /\ result # << >>)
        => IF arg.searchText.t # "string" \/ arg.searchText.s = << >>
           THEN result[1] = arg.products
           ELSE result[1] = Containing(arg.products, arg.searchText.s)

\* C25: for a search text that is missing or empty the result is the list
\* itself; otherwise it is the sub-list, in the original order, of the
\* products whose name, description or category contains the search text
\* without its leading and trailing blanks, letter case ignored: the whole
\* list when the text is made of blanks, the empty list when no product
\* matches.
C25_SearchMatchesTrimmedText ==
    (arg.fn = "search" /\ result # << >>)
        => IF arg.searchText.t # "string" \/ arg.searchText.s = << >>
           THEN result[1] = arg.products
           ELSE /\ result[1] = Containing(arg.products, Trim(arg.searchText.s))
                /\ Trim(arg.searchText.s) = << >> => result[1] = arg.products
                /\ (\A i \in DOMAIN arg.products :
                        ~ContainsIgnoringCase(arg.products[i], Trim(arg.searchText.s)))
                     => result[1] = << >>

\* the search for "b " in a list of three products, none of which contains
\* a b followed by a blank, has returned the three products
C25_Witness ==
    /\ arg.fn = "search"
    /\ result # << >>
    /\ arg.searchText = Str(<<"b", " ">>)
    /\ Len(arg.products) = 3
    /\ Containing(arg.products, arg.searchText.s) = << >>
    /\ result[1] = arg.products

\* the text is the integer part of a dollar amount: digits in groups of
\* three separated by commas, counted from the right, no leading zero
\* except for "0"
GroupedDigits(t) ==
    /\ Len(t) >= 1
    /\ \A i \in DOMAIN t :
        IF (Len(t) - i + 1) % 4 = 0 THEN t[i] = "," ELSE IsDigit(t[i])
    /\ Len(t) > 1 => t[1] # "0"

\* the text is the amount of n cents written in dollars: an optional minus
\* sign, "$", the grouped integer part, ".", and exactly two decimals
DollarString(t, n) ==
    LET a == IF n < 0 THEN 0 - n ELSE n
        body == IF n < 0 THEN Tail(t) ELSE t
        whole == SubSeq(body, 2, Len(body) - 3)
        cents == SubSeq(body, Len(body) - 1, Len(body))
    IN  /\ n < 0 => Head(t) = "-"
        /\ Len(body) >= 5
        /\ body[1] = "$"
        /\ body[Len(body) - 2] = "."
        /\ IsDigit(cents[1]) /\ IsDigit(cents[2])
        /\ GroupedDigits(whole)
        /\ 100 * DigitsValue(SelectSeq(whole, IsDigit)) + DigitsValue(cents) = a

\* C26: formatPrice returns a text for every value: "$0.00" for a value that
\* is missing, a string or NaN, and for a number the amount in dollars with
\* thousands separators and exactly two decimals; 0 gives "$0.00" and
\* 1234.5 gives "$1,234.50".
C26_FormatPriceTotal ==
    (arg.fn = "format" /\ result # << >>)
        => /\ (arg.price.t # "number" \/ IsNaN(arg.price.n))
                => result[1] = <<"$", "0", ".", "0", "0">>
           /\ (arg.price.t = "number" /\ ~IsNaN(arg.price.n))
                => DollarString(result[1], arg.price.n)
           /\ arg.price = Num(0) => result[1] = <<"$", "0", ".", "0", "0">>
           /\ arg.price = Num(123450)
                => result[1] = <<"$", "1", ",", "2", "3", "4", ".", "5", "0">>

\* 1234.5 has been formatted
C26_Witness ==
    /\ arg.fn = "format"
    /\ arg.price = Num(123450)
    /\ result = << <<"$", "1", ",", "2", "3", "4", ".", "5", "0">> >>

SubmitRejectedByValidate ==
    /\ HandleFormSubmit
    /\ ~ValidateProductData(GetFormData(form)).isValid

\* the fields that carry an error annotation
Annotated(fe) ==
    {f \in Fields : fe[f] # << >>}

\* C28: after a submission that the validation rejected the annotated
\* fields are exactly the fields whose value breaks the field's rule.
C28_AnnotationsMatchViolations ==
    [][SubmitRejectedByValidate
        => Annotated(fieldErrors') = {f \in Fields : FieldViolatesRule(f, form')}]_vars

\* C29: a click on a row's delete button opens one confirmation dialog and,
\* if it is accepted, makes one deleteProduct call; a click on a row's edit
\* button enters edit mode once.
C29_OneClickOneHandlerRun ==
    [][/\ ClickDelete => /\ Len(prompts') = 1
                         /\ Len(calls') = (IF prompts'[1] THEN 1 ELSE 0)
       /\ ClickEdit => Len(notices') = 1]_vars

\* C30: while the controller is editing a record, the mode and the record
\* change only when the user cancels, the user clicks a row's edit button,
\* or an update of that record succeeds; in particular no create that
\* completes changes them.
C30_EditModePersists ==
    [][isEditing /\ ~(isEditing' /\ currentEditId' = currentEditId)
        => \/ HandleCancelEdit
           \/ ClickEdit
           \/ /\ WriteSettled
              /\ \E i \in DOMAIN inflight :
                    /\ inflight[i].op = "update"
                    /\ inflight[i].stage = "ok"
                    /\ inflight[i].id = currentEditId
                    /\ inflight' = RemoveAt(inflight, i)]_vars

\* C31: whenever the controller is editing, the record it edits is in the
\* mirror.
C31_EditedRecordInMirror ==
    isEditing => InMirror(currentEditId)

FormWritesInFlight ==
    {i \in DOMAIN inflight : inflight[i].op \in {"create", "update"}}

\* C33: at most one write issued from the form is in flight; the submit
\* button is disabled exactly while one is; no submission happens while one
\* is; a submission that the validation rejects or the adapter refuses and
\* the continuation of a form write, successful or failed, leave the button
\* enabled.
C33_OneFormWriteInFlight ==
    /\ [](/\ Cardinality(FormWritesInFlight) <= 1
          /\ submitDisabled <=> FormWritesInFlight # {})
    /\ [][/\ \/ /\ FormWritesInFlight = {}
                /\ submitDisabled' <=> Len(inflight') = Len(inflight) + 1
             \/ ~HandleFormSubmit
          /\ \/ ~submitDisabled'
             \/ \A op \in {"create", "update"} : \A stage \in {"ok", "err"} :
                    ~SettledWrite(op, stage)]_vars

\* a create is in flight, applied by the store and pushed to the page, and
\* the button is still disabled
C33_Witness ==
    /\ submitDisabled
    /\ Len(inflight) = 1
    /\ inflight[1].op = "create"
    /\ inflight[1].stage = "ok"
    /\ Len(allProducts) = 2

\* C34: whenever the products table is visible the mirror is not empty and
\* the rows of the table are the rows of the mirror's records, in the
\* mirror's order; once loading is over, the empty state and the table are
\* never visible together.
C34_TableShowsMirror ==
    /\ ~hidden.productsContainer
        => /\ allProducts # << >>
           /\ tbodyRows = [i \in 1..Len(allProducts) |-> CreateProductRow(allProducts[i])]
    /\ (hidden.loading /\ ~hidden.emptyState) => hidden.productsContainer

\* the table shows two records after a second render
C34_Witness ==
    /\ ~hidden.productsContainer
    /\ hidden.loading
    /\ Len(allProducts) = 2
    /\ Len(tbodyRows) = 2
    /\ tbodyListeners = 2

\* C35: the loading indicator, once hidden, is never shown again; it is
\* hidden by a step only when the step is a call of the subscription
\* callback or a start of the listener that failed, and every such step
\* leaves it hidden; when the subscription delivers, the page does not stay
\* running and loading for ever (it leaves loading, unless it is torn down
\* first).
C35_LoadingLeftOnce ==
    /\ [][/\ hidden.loading => hidden'.loading
          /\ (~hidden.loading /\ hidden'.loading)
                => (SnapshotPush \/ SnapshotError \/ EstablishFailed)
          /\ \/ hidden'.loading
             \/ ~(SnapshotPush \/ SnapshotError \/ EstablishFailed)]_vars
    /\ []<>(pc # "running" \/ hidden.loading)

\* loading was left by the first push; the subscription then failed and two
\* reconnections followed: the indicator is still hidden
C35_Witness ==
    /\ hidden.loading
    /\ allProducts # << >>
    /\ Len(subs) = 3
    /\ reconnectAttempts = 2
====
